---- MODULE Spec2Model ----
(***************************************************************************)
(* The garbage-collected AST heap of juno (crates/juno/src/ast/mod.rs):    *)
(* Context (chunked node storage, free list, mark-and-sweep gc),           *)
(* GCContext (the per-thread viewing session) and NodePtr (the counted     *)
(* pointer that keeps a node alive across sessions).                       *)
(*                                                                         *)
(* Memory is modelled explicitly.  A Context object is named by a key; a   *)
(* StorageEntry by its address <<context key, chunk, position>>; a         *)
(* &Node by [entry |-> address] (the address of the entry's `inner`).      *)
(* A u32 is the pair [hi, lo] of its top bit and its low 31 bits.          *)
(***************************************************************************)
EXTENDS Integers, Sequences, FiniteSets, Bags, TLC

(***************************************************************************)
(* Bounds of the model.                                                    *)
(***************************************************************************)
\* One Context on one thread: the storage slots ever appended to its chunks,
\* and the NodePtr values in existence at one time.
MaxEntries == 2
MaxPtrs == 2
\* Several Contexts on two threads: the calls of Context::new and the NodePtr
\* values at one time (one storage slot is shared by all the Contexts).
MaxContexts == 2
SessPtrs == 2
\* Capacity of the first chunk of a Context of Spec (MIN_CHUNK_CAPACITY, scaled).
MinChunkCap == 1
\* Capacity at which chunks of a Context of Spec stop doubling (MAX_CHUNK_CAPACITY, scaled).
MaxChunkCap == 2

\* The threads of the process.
Threads == {"t1", "t2"}
\* The sizes of program the model runs: one Context used from one thread,
\* the same with the history variables recorded and two NodePtrs at a time,
\* and several Contexts used from two threads.
OneContext ==
    [threads |-> {"t1"}, contexts |-> 1, entries |-> MaxEntries, ptrs |-> MaxPtrs,
     history |-> FALSE]
OneContextHistory == [OneContext EXCEPT !.history = TRUE, !.ptrs = 2]
ManyContexts ==
    [threads |-> Threads, contexts |-> MaxContexts, entries |-> 1,
     ptrs |-> SessPtrs, history |-> FALSE]
\* The values a NumericLiteral template carries.
Values == {1}
\* Two threads that only make and drop Contexts: one Context more.
ContextsOnly == [ManyContexts EXCEPT !.contexts = MaxContexts + 1]
\* The keys naming Context objects, in the order Context::new hands them out.
CtxKeys == 1..(MaxContexts + 1)

(***************************************************************************)
(* u32 values: [hi |-> top bit, lo |-> low 31 bits].                       *)
(***************************************************************************)
Low31Max == 2147483647

U32(n) == [hi |-> 0, lo |-> n]

\* fetch_add(1) on an AtomicU32 wraps.
U32Inc(x) ==
    IF x.lo < Low31Max THEN [x EXCEPT !.lo = @ + 1]
    ELSE [hi |-> 1 - x.hi, lo |-> 0]

FREE_ENTRY == U32(0)

(***************************************************************************)
(* Node and StorageEntry.                                                  *)
(***************************************************************************)
NoRef == [entry |-> <<0, 0, 0>>]

\* &entry.inner: the node reference of the entry at address a.
InnerRef(a) == [entry |-> a]

\* StorageEntry::from_node: the entry that holds the node behind a reference.
StorageEntry_from_node(node) == node.entry

NumericLiteral(v) ==
    [kind |-> "NumericLiteral", value |-> v, operator |-> "", children |-> <<>>]

BinaryExpression(op, left, right) ==
    [kind |-> "BinaryExpression", value |-> 0, operator |-> op,
     children |-> <<left, right>>]

set_markbit(e, bit) ==
    [e EXCEPT !.ctx_id_markbit.hi = IF bit THEN 1 ELSE 0]

markbit(e) == e.ctx_id_markbit.hi # 0

is_free(e) == e.ctx_id_markbit = FREE_ENTRY

\* The low 31 bits of the packed cell: the owner id.
owner_id(e) == e.ctx_id_markbit.lo

(***************************************************************************)
(* Memory: mem[c] is the Context object with key c.                        *)
(***************************************************************************)
\* The contents of mem[c] while no Context object lives at key c.
NoContext ==
    [id |-> FREE_ENTRY, nodes |-> <<>>, free |-> <<>>,
     nodeptr_count |-> [ctx_id |-> FREE_ENTRY, count |-> 0],
     next_chunk_capacity |-> 0, markbit_marked |-> FALSE, strict_mode |-> FALSE]

Entry(mem, a) == mem[a[1]].nodes[a[2]].ents[a[3]]

SetEntry(mem, a, e) ==
    [mem EXCEPT ![a[1]].nodes[a[2]].ents[a[3]] = e]

\* The addresses of the entries stored in Context c, chunk by chunk.
RECURSIVE ChunkAddrs(_, _, _, _)
ChunkAddrs(c, k, n, i) ==
    IF i > n THEN <<>> ELSE <<(<<c, k, i>>)>> \o ChunkAddrs(c, k, n, i + 1)

RECURSIVE AddrsFrom(_, _, _)
AddrsFrom(c, cx, k) ==
    IF k > Len(cx.nodes) THEN <<>>
    ELSE ChunkAddrs(c, k, Len(cx.nodes[k].ents), 1) \o AddrsFrom(c, cx, k + 1)

EntryAddrs(c, cx) == AddrsFrom(c, cx, 1)

Range(s) == {s[i] : i \in DOMAIN s}

(***************************************************************************)
(* Context: new, new_chunk, alloc.  The chunk capacities are parameters,   *)
(* so that a specification can run the same code with the capacities       *)
(* scaled down.                                                            *)
(***************************************************************************)
\* A variant of new_chunk that doubles while capacity <= max_cap.
new_chunk_doubles_at_cap(cx, max_cap) ==
    LET capacity == cx.next_chunk_capacity
    IN  [cx EXCEPT
            !.nodes = Append(@, [capacity |-> capacity, ents |-> <<>>]),
            !.next_chunk_capacity =
                IF capacity <= max_cap THEN capacity * 2 ELSE capacity]

\* Vec::with_capacity(capacity) pushed on nodes; the next capacity doubles
\* while below max_cap.
new_chunk(cx, max_cap) ==
    LET capacity == cx.next_chunk_capacity
    IN  [cx EXCEPT
            !.nodes = Append(@, [capacity |-> capacity, ents |-> <<>>]),
            !.next_chunk_capacity =
                IF capacity < max_cap THEN capacity * 2 ELSE capacity]

Context_new(id, min_cap, max_cap) ==
    new_chunk([id |-> id,
               nodes |-> <<>>,
               free |-> <<>>,
               nodeptr_count |-> [ctx_id |-> id, count |-> 0],
               next_chunk_capacity |-> min_cap,
               markbit_marked |-> TRUE,
               strict_mode |-> FALSE],
              max_cap)

\* A variant of the reuse branch that takes the oldest free slot.
alloc_reuse_oldest(mem, c, n, debug) ==
    LET cx == mem[c]
        a == cx.free[1]
        popped == [mem EXCEPT ![c].free = SubSeq(@, 2, Len(@))]
        entry == Entry(popped, a)
        stamped == set_markbit([entry EXCEPT !.ctx_id_markbit = cx.id],
                               ~cx.markbit_marked)
    IN  IF debug /\ entry.ctx_id_markbit # FREE_ENTRY
        THEN [mem |-> popped, res |-> "panic: Incorrect context ID", node |-> NoRef]
        ELSE IF debug /\ entry.count # 0
        THEN [mem |-> popped, res |-> "panic: Freed entry has pointers to it",
              node |-> NoRef]
        ELSE [mem |-> SetEntry(popped, a, [stamped EXCEPT !.inner = n]),
              res |-> "ok", node |-> InnerRef(a)]

\* The reuse branch of alloc: the slot popped from the free list.  In a debug
\* build the two debug_assert!s run after the pop and before the entry is
\* written.
alloc_reuse(mem, c, n, debug) ==
    LET cx == mem[c]
        a == cx.free[Len(cx.free)]
        popped == [mem EXCEPT ![c].free = SubSeq(@, 1, Len(@) - 1)]
        entry == Entry(popped, a)
        stamped == set_markbit([entry EXCEPT !.ctx_id_markbit = cx.id],
                               ~cx.markbit_marked)
    IN  IF debug /\ entry.ctx_id_markbit # FREE_ENTRY
        THEN [mem |-> popped, res |-> "panic: Incorrect context ID", node |-> NoRef]
        ELSE IF debug /\ entry.count # 0
        THEN [mem |-> popped, res |-> "panic: Freed entry has pointers to it",
              node |-> NoRef]
        ELSE [mem |-> SetEntry(popped, a, [stamped EXCEPT !.inner = n]),
              res |-> "ok", node |-> InnerRef(a)]

\* A variant of the append branch that tests len > capacity, and so pushes
\* once more on a full chunk.
alloc_push_late_chunk(mem, c, n, max_cap) ==
    LET cx == mem[c]
        last == cx.nodes[Len(cx.nodes)]
        grown == IF Len(last.ents) > last.capacity THEN new_chunk(cx, max_cap) ELSE cx
        k == Len(grown.nodes)
        entry == set_markbit([ctx_id_markbit |-> cx.id, count |-> 0, inner |-> n],
                             ~cx.markbit_marked)
        pushed == [grown EXCEPT !.nodes[k].ents = Append(@, entry)]
    IN  [mem |-> [mem EXCEPT ![c] = pushed],
         res |-> "ok",
         node |-> InnerRef(<<c, k, Len(pushed.nodes[k].ents)>>)]

\* The append branch of alloc: push on the last chunk, after new_chunk when
\* the last chunk is full.
alloc_push(mem, c, n, max_cap) ==
    LET cx == mem[c]
        last == cx.nodes[Len(cx.nodes)]
        grown == IF Len(last.ents) >= last.capacity THEN new_chunk(cx, max_cap) ELSE cx
        k == Len(grown.nodes)
        entry == set_markbit([ctx_id_markbit |-> cx.id, count |-> 0, inner |-> n],
                             ~cx.markbit_marked)
        pushed == [grown EXCEPT !.nodes[k].ents = Append(@, entry)]
    IN  [mem |-> [mem EXCEPT ![c] = pushed],
         res |-> "ok",
         node |-> InnerRef(<<c, k, Len(pushed.nodes[k].ents)>>)]

\* Context::alloc of node n in the Context with key c.
alloc(mem, c, n, max_cap, debug) ==
    IF mem[c].free # <<>> THEN alloc_reuse(mem, c, n, debug)
    ELSE alloc_push(mem, c, n, max_cap)

\* A variant of enable_strict_mode that flips the flag.
enable_strict_mode_flips(cx) == [cx EXCEPT !.strict_mode = ~@]

\* Context::enable_strict_mode.
enable_strict_mode(cx) == [cx EXCEPT !.strict_mode = TRUE]

\* Context::strict_mode.
strict_mode(cx) == cx.strict_mode

(***************************************************************************)
(* GCContext: the thread-local flag.                                       *)
(***************************************************************************)
\* A variant of GCContext::new that does not test the flag.
GCContext_new_unchecked(in_use) == [res |-> "ok", in_use |-> TRUE]

\* A variant of GCContext::new that panics whatever the flag of the thread.
GCContext_new_refuses(in_use) ==
    [res |-> "panic: Attempt to create multiple GCContexts in a single thread",
     in_use |-> in_use]

\* GCContext::new on a thread whose flag is in_use: the panic, or the flag set.
GCContext_new(in_use) ==
    IF in_use
    THEN [res |-> "panic: Attempt to create multiple GCContexts in a single thread",
          in_use |-> in_use]
    ELSE [res |-> "ok", in_use |-> TRUE]

\* A variant of Drop for GCContext that leaves the flag as it is.
GCContext_drop_keeps_flag(in_use) == in_use

\* Drop for GCContext: the flag of the dropping thread is cleared.
GCContext_drop(in_use) == FALSE

(***************************************************************************)
(* Context::gc.                                                            *)
(***************************************************************************)
\* The debug_assert! of the root loop: it looks at every entry of every
\* chunk, before the is_free test.
gc_entry_marked(mem, c) ==
    \E a \in Range(EntryAddrs(c, mem[c])) :
        markbit(Entry(mem, a)) = mem[c].markbit_marked

\* The roots, in chunk order: the entries that are not free and have a
\* positive count.
gc_roots(mem, c) ==
    SelectSeq(EntryAddrs(c, mem[c]),
              LAMBDA a : ~is_free(Entry(mem, a)) /\ Entry(mem, a).count > 0)

\* Marker::call, and the walk over the children of a node it calls
\* (visit_children, then visit_child of each &Node child, in order).
RECURSIVE Marker_call(_, _, _)
RECURSIVE visit_children(_, _, _, _)
Marker_call(mem, node, markbit_marked) ==
    LET a == StorageEntry_from_node(node)
        entry == Entry(mem, a)
    IN  IF markbit(entry) = markbit_marked THEN mem
        ELSE visit_children(SetEntry(mem, a, set_markbit(entry, markbit_marked)),
                            entry.inner.children, 1, markbit_marked)

visit_children(mem, children, i, markbit_marked) ==
    IF i > Len(children) THEN mem
    ELSE visit_children(Marker_call(mem, children[i], markbit_marked),
                        children, i + 1, markbit_marked)

\* root.inner.visit(&gc, &mut marker, None) for each root in turn.
RECURSIVE gc_mark(_, _, _, _)
gc_mark(mem, roots, i, markbit_marked) ==
    IF i > Len(roots) THEN mem
    ELSE gc_mark(Marker_call(mem, InnerRef(roots[i]), markbit_marked),
                 roots, i + 1, markbit_marked)

\* A variant of the Marker's test that never returns early.
Marker_never_returns_early(entry, markbit_marked) == FALSE

\* The test at the head of Marker::call: the entry is marked already.
Marker_returns_early(entry, markbit_marked) == markbit(entry) = markbit_marked

\* The marking phase followed call by call.  A record of it holds the memory
\* so far, the number of calls of Marker::call, the entries whose mark was
\* set, the entries whose children were walked, and the entries on which a
\* call returned early, each in the order of the calls.
NoMarking(mem) == [mem |-> mem, calls |-> 0, sets |-> <<>>, walks |-> <<>>, early |-> <<>>]

RECURSIVE Marker_call_logged(_, _, _)
RECURSIVE visit_children_logged(_, _, _, _)
Marker_call_logged(log, node, markbit_marked) ==
    LET a == StorageEntry_from_node(node)
        entry == Entry(log.mem, a)
        called == [log EXCEPT !.calls = @ + 1]
    IN  IF Marker_returns_early(entry, markbit_marked)
        THEN [called EXCEPT !.early = Append(@, a)]
        ELSE visit_children_logged(
                 [called EXCEPT !.mem = SetEntry(@, a, set_markbit(entry, markbit_marked)),
                                !.sets = Append(@, a),
                                !.walks = Append(@, a)],
                 entry.inner.children, 1, markbit_marked)

visit_children_logged(log, children, i, markbit_marked) ==
    IF i > Len(children) THEN log
    ELSE visit_children_logged(Marker_call_logged(log, children[i], markbit_marked),
                               children, i + 1, markbit_marked)

RECURSIVE gc_mark_logged(_, _, _, _)
gc_mark_logged(log, roots, i, markbit_marked) ==
    IF i > Len(roots) THEN log
    ELSE gc_mark_logged(Marker_call_logged(log, InnerRef(roots[i]), markbit_marked),
                        roots, i + 1, markbit_marked)

\* A variant of the sweep tests without the mark test.
sweep_keeps_unmarked(entry, markbit_marked) ==
    \/ is_free(entry)
    \/ entry.count > 0

\* The three tests of the sweep loop: an entry is kept when it is free
\* already, has a positive count, or is marked.
sweep_keeps(entry, markbit_marked) ==
    \/ is_free(entry)
    \/ entry.count > 0
    \/ markbit(entry) = markbit_marked

\* The sweep loop over the entries at addrs[i..].
RECURSIVE gc_sweep(_, _, _, _)
gc_sweep(mem, c, addrs, i) ==
    IF i > Len(addrs) THEN mem
    ELSE LET a == addrs[i]
             entry == Entry(mem, a)
         IN  IF sweep_keeps(entry, mem[c].markbit_marked)
             THEN gc_sweep(mem, c, addrs, i + 1)
             ELSE gc_sweep(
                     [SetEntry(mem, a, [entry EXCEPT !.ctx_id_markbit = FREE_ENTRY])
                        EXCEPT ![c].free = Append(@, a)],
                     c, addrs, i + 1)

\* Context::gc on the Context with key c, called on a thread whose
\* GCCONTEXT_IN_USE flag is in_use.  The internal GCContext is created after
\* the roots are collected and dropped before the sweep.
gc(mem, c, in_use, debug) ==
    IF debug /\ gc_entry_marked(mem, c)
    THEN [mem |-> mem, res |-> "panic: Entry marked before start of GC",
          in_use |-> in_use, marked |-> {}]
    ELSE IF GCContext_new(in_use).res # "ok"
    THEN [mem |-> mem, res |-> GCContext_new(in_use).res,
          in_use |-> GCContext_new(in_use).in_use, marked |-> {}]
    ELSE LET marked == gc_mark(mem, gc_roots(mem, c), 1, mem[c].markbit_marked)
             swept == gc_sweep(marked, c, EntryAddrs(c, marked[c]), 1)
         IN  [mem |-> [swept EXCEPT ![c].markbit_marked = ~@],
              res |-> "ok",
              in_use |-> GCContext_drop(GCContext_new(in_use).in_use),
              marked |-> {a \in Range(EntryAddrs(c, mem[c])) :
                            markbit(Entry(marked, a)) # markbit(Entry(mem, a))}]

(***************************************************************************)
(* Drop for Context.                                                       *)
(***************************************************************************)
\* The entries the debug loop of drop would report, in chunk order.
drop_leaked(mem, c) ==
    SelectSeq(EntryAddrs(c, mem[c]), LAMBDA a : Entry(mem, a).count # 0)

\* A variant of drop that tolerates one outstanding NodePtr.
Context_drop_off_by_one(mem, c, debug) ==
    IF mem[c].nodeptr_count.count > 1
    THEN IF debug /\ drop_leaked(mem, c) # <<>>
         THEN [res |-> "panic: NodePtr must not outlive Context: node",
               node |-> InnerRef(drop_leaked(mem, c)[1])]
         ELSE [res |-> "panic: NodePtr must not outlive Context", node |-> NoRef]
    ELSE [res |-> "ok", node |-> NoRef]

Context_drop(mem, c, debug) ==
    IF mem[c].nodeptr_count.count > 0
    THEN IF debug /\ drop_leaked(mem, c) # <<>>
         THEN [res |-> "panic: NodePtr must not outlive Context: node",
               node |-> InnerRef(drop_leaked(mem, c)[1])]
         ELSE [res |-> "panic: NodePtr must not outlive Context", node |-> NoRef]
    ELSE [res |-> "ok", node |-> NoRef]

(***************************************************************************)
(* NodePtr.                                                                 *)
(***************************************************************************)
NoPtr == [counter |-> 0, entry |-> <<0, 0, 0>>]

\* A variant of from_entry that does not count the NodePtr in the entry.
NodePtr_from_entry_uncounted(mem, c, a) ==
    [mem |-> [mem EXCEPT ![c].nodeptr_count.count = @ + 1],
     ptr |-> [counter |-> c, entry |-> a]]

\* NodePtr::from_entry through a GCContext over the Context with key c.
NodePtr_from_entry(mem, c, a) ==
    [mem |-> [SetEntry(mem, a, [Entry(mem, a) EXCEPT !.count = @ + 1])
                EXCEPT ![c].nodeptr_count.count = @ + 1],
     ptr |-> [counter |-> c, entry |-> a]]

\* NodePtr::from_node.
NodePtr_from_node(mem, c, node) ==
    NodePtr_from_entry(mem, c, StorageEntry_from_node(node))

\* A variant of clone that does not count the clone in the Context's counter.
NodePtr_clone_entry_only(mem, p) ==
    [mem |-> SetEntry(mem, p.entry, [Entry(mem, p.entry) EXCEPT !.count = @ + 1]),
     ptr |-> [counter |-> p.counter, entry |-> p.entry]]

\* Clone for NodePtr.
NodePtr_clone(mem, p) ==
    [mem |-> [SetEntry(mem, p.entry, [Entry(mem, p.entry) EXCEPT !.count = @ + 1])
                EXCEPT ![p.counter].nodeptr_count.count = @ + 1],
     ptr |-> [counter |-> p.counter, entry |-> p.entry]]

\* A variant of drop that leaves the count of the entry as it is.
NodePtr_drop_counter_only(mem, p, debug) ==
    LET c2 == mem[p.counter].nodeptr_count.count
    IN  IF debug /\ ~(c2 > 0)
        THEN [mem |-> mem, res |-> "panic: assertion failed: c > 0"]
        ELSE [mem |-> [mem EXCEPT ![p.counter].nodeptr_count.count = c2 - 1],
              res |-> "ok"]

\* Drop for NodePtr.  In a debug build each decrement is guarded by
\* debug_assert!(c > 0); in a release build 0 - 1 wraps to u32::MAX, which is
\* -1 in the 32-bit integers of the model.
NodePtr_drop(mem, p, debug) ==
    LET c1 == Entry(mem, p.entry).count
        m1 == SetEntry(mem, p.entry, [Entry(mem, p.entry) EXCEPT !.count = c1 - 1])
        c2 == m1[p.counter].nodeptr_count.count
    IN  IF debug /\ ~(c1 > 0)
        THEN [mem |-> mem, res |-> "panic: assertion failed: c > 0"]
        ELSE IF debug /\ ~(c2 > 0)
        THEN [mem |-> m1, res |-> "panic: assertion failed: c > 0"]
        ELSE [mem |-> [m1 EXCEPT ![p.counter].nodeptr_count.count = c2 - 1],
              res |-> "ok"]

\* A variant of == that compares the counters only.
NodePtr_eq_counter_only(p, q) == p.counter = q.counter

\* PartialEq for NodePtr, derived: the two pointers are compared field by field.
NodePtr_eq(p, q) == p.counter = q.counter /\ p.entry = q.entry

\* A variant of node with the id test inverted.
NodePtr_node_inverted(mem, p, c) ==
    IF mem[p.counter].nodeptr_count.ctx_id = mem[c].id
    THEN [res |-> "panic: Attempt to derefence NodePtr allocated context in context",
          node |-> NoRef]
    ELSE [res |-> "ok", node |-> InnerRef(p.entry)]

\* NodePtr::node through a GCContext over the Context with key c.
NodePtr_node(mem, p, c) ==
    IF mem[p.counter].nodeptr_count.ctx_id # mem[c].id
    THEN [res |-> "panic: Attempt to derefence NodePtr allocated context in context",
          node |-> NoRef]
    ELSE [res |-> "ok", node |-> InnerRef(p.entry)]

(***************************************************************************)
(* NodeChild for &NodeList: the read-only walk (visit_child) and the       *)
(* transforming walk (visit_child_mut).  A walk w is followed from one     *)
(* call of the visitor to the next; w.index is the 0-based index of the    *)
(* source, so the element under it is w.list[w.index + 1].                 *)
(***************************************************************************)
None == [some |-> FALSE, node |-> NoRef]

Some(node) == [some |-> TRUE, node |-> node]

\* The two values a VisitorMut returns.
Unchanged == [changed |-> FALSE, node |-> NoRef]

Changed(node) == [changed |-> TRUE, node |-> node]

\* No walk is in progress.
NoWalk ==
    [mode |-> "idle", pc |-> "idle", list |-> <<>>, parent |-> NoRef, index |-> 0,
     created |-> FALSE, result |-> <<>>, ret |-> "none",
     calls |-> <<>>, answers |-> <<>>]

\* The walk at the entry of visit_child or visit_child_mut.
walk_enter(mode, list, parent) ==
    [NoWalk EXCEPT !.mode = mode, !.pc = "loop", !.list = list, !.parent = parent]

\* visitor.call(ctx, node, parent): what the visitor is called with.
visitor_call(w, node, parent) ==
    [w EXCEPT !.calls = Append(@, [node |-> node, parent |-> parent])]

\* One iteration of the for loop of visit_child.
visit_child(w) ==
    [visitor_call(w, w.list[w.index + 1], Some(w.parent)) EXCEPT !.index = @ + 1]

\* A variant of the outer loop that takes a replacement equal to the element
\* for Unchanged.
visit_child_mut_outer_same_is_unchanged(w, answer) ==
    LET called == [visitor_call(w, w.list[w.index + 1], Some(w.parent))
                      EXCEPT !.answers = Append(@, answer)]
    IN  IF answer.changed /\ answer.node # w.list[w.index + 1]
        THEN [called EXCEPT !.created = TRUE,
                            !.result = SubSeq(w.list, 1, w.index) \o <<answer.node>>,
                            !.index = @ + 1,
                            !.pc = "rest"]
        ELSE [called EXCEPT !.index = @ + 1]

\* A variant of the outer loop without the index += 1 after the first change.
visit_child_mut_outer_no_advance(w, answer) ==
    LET called == [visitor_call(w, w.list[w.index + 1], Some(w.parent))
                      EXCEPT !.answers = Append(@, answer)]
    IN  IF answer.changed
        THEN [called EXCEPT !.created = TRUE,
                            !.result = SubSeq(w.list, 1, w.index) \o <<answer.node>>,
                            !.pc = "rest"]
        ELSE [called EXCEPT !.index = @ + 1]

\* One iteration of the outer while loop of visit_child_mut, the visitor
\* answering answer: on Changed the result list is created, the elements
\* before index copied in and the replacement pushed.
visit_child_mut_outer(w, answer) ==
    LET called == [visitor_call(w, w.list[w.index + 1], Some(w.parent))
                      EXCEPT !.answers = Append(@, answer)]
    IN  IF answer.changed
        THEN [called EXCEPT !.created = TRUE,
                            !.result = SubSeq(w.list, 1, w.index) \o <<answer.node>>,
                            !.index = @ + 1,
                            !.pc = "rest"]
        ELSE [called EXCEPT !.index = @ + 1]

\* A variant of the inner loop that pushes nothing for Unchanged.
visit_child_mut_inner_skips(w, answer) ==
    LET called == [visitor_call(w, w.list[w.index + 1], Some(w.parent))
                      EXCEPT !.answers = Append(@, answer)]
    IN  [called EXCEPT
            !.result = IF answer.changed THEN Append(@, answer.node) ELSE @,
            !.index = @ + 1]

\* One iteration of the inner while loop of visit_child_mut.
visit_child_mut_inner(w, answer) ==
    LET called == [visitor_call(w, w.list[w.index + 1], Some(w.parent))
                      EXCEPT !.answers = Append(@, answer)]
    IN  [called EXCEPT
            !.result = Append(@, IF answer.changed THEN answer.node
                                 ELSE w.list[w.index + 1]),
            !.index = @ + 1]

\* The return of a walk whose loop has ended: Changed(result) from the inner
\* loop, Unchanged from the outer loop, () from visit_child.
walk_return(w) ==
    [w EXCEPT !.pc = "done",
              !.ret = IF w.mode = "visit_child" THEN "()"
                      ELSE IF w.pc = "rest" THEN "Changed" ELSE "Unchanged"]

(***************************************************************************)
(* NEXT_ID, the process-wide counter of Context ids.                       *)
(***************************************************************************)
\* x < y for u32 values.
U32Less(x, y) == x.hi < y.hi \/ (x.hi = y.hi /\ x.lo < y.lo)

\* A variant of the fetch that reads NEXT_ID and does not add.
NEXT_ID_load(next) == [id |-> next, next |-> next]

\* NEXT_ID.fetch_add(1, Ordering::Relaxed): the value read, and the value left.
NEXT_ID_fetch_add(next) == [id |-> next, next |-> U32Inc(next)]

\* No call of Context::new is in progress and no id has been issued.
NoCalls ==
    [pending |-> [t \in Threads |-> [fetched |-> FALSE, id |-> U32(0)]],
     issued |-> <<>>]

(***************************************************************************)
(* The operator and kind enums.  define_str_enum! is given the pairs of a  *)
(* variant and its text; a table below lists them in the order of the      *)
(* source.                                                                 *)
(***************************************************************************)
UnaryExpressionOperator ==
    << <<"Delete", "delete">>, <<"Void", "void">>, <<"Typeof", "typeof">>,
       <<"Plus", "+">>, <<"Minus", "-">>, <<"BitNot", "~">>, <<"Not", "!">> >>

\* A variant of the binary operators' table in which StrictEquals is given
\* the text of LooseEquals.
BinaryExpressionOperator_repeats_a_text ==
    << <<"LooseEquals", "==">>, <<"LooseNotEquals", "!=">>,
       <<"StrictEquals", "==">>, <<"StrictNotEquals", "!==">>,
       <<"Less", "<">>, <<"LessEquals", "<=">>,
       <<"Greater", ">">>, <<"GreaterEquals", ">=">>,
       <<"LShift", "<<">>, <<"RShift", ">>">>, <<"RShift3", ">>>">>,
       <<"Plus", "+">>, <<"Minus", "-">>, <<"Mult", "*">>, <<"Div", "/">>,
       <<"Mod", "%">>, <<"BitOr", "|">>, <<"BitXor", "^">>, <<"BitAnd", "&">>,
       <<"Exp", "**">>, <<"In", "in">>, <<"Instanceof", "instanceof">> >>

BinaryExpressionOperator ==
    << <<"LooseEquals", "==">>, <<"LooseNotEquals", "!=">>,
       <<"StrictEquals", "===">>, <<"StrictNotEquals", "!==">>,
       <<"Less", "<">>, <<"LessEquals", "<=">>,
       <<"Greater", ">">>, <<"GreaterEquals", ">=">>,
       <<"LShift", "<<">>, <<"RShift", ">>">>, <<"RShift3", ">>>">>,
       <<"Plus", "+">>, <<"Minus", "-">>, <<"Mult", "*">>, <<"Div", "/">>,
       <<"Mod", "%">>, <<"BitOr", "|">>, <<"BitXor", "^">>, <<"BitAnd", "&">>,
       <<"Exp", "**">>, <<"In", "in">>, <<"Instanceof", "instanceof">> >>

LogicalExpressionOperator ==
    << <<"And", "&&">>, <<"Or", "||">>, <<"NullishCoalesce", "??">> >>

UpdateExpressionOperator ==
    << <<"Increment", "++">>, <<"Decrement", "--">> >>

AssignmentExpressionOperator ==
    << <<"Assign", "=">>, <<"LShiftAssign", "<<=">>, <<"RShiftAssign", ">>=">>,
       <<"RShift3Assign", ">>>=">>, <<"PlusAssign", "+=">>, <<"MinusAssign", "-=">>,
       <<"MultAssign", "*=">>, <<"DivAssign", "/=">>, <<"ModAssign", "%=">>,
       <<"BitOrAssign", "|=">>, <<"BitXorAssign", "^=">>, <<"BitAndAssign", "&=">>,
       <<"ExpAssign", "**=">>, <<"LogicalOrAssign", "||=">>,
       <<"LogicalAndAssign", "&&=">>, <<"NullishCoalesceAssign", "??=">> >>

VariableDeclarationKind ==
    << <<"Var", "var">>, <<"Let", "let">>, <<"Const", "const">> >>

PropertyKind ==
    << <<"Init", "init">>, <<"Get", "get">>, <<"Set", "set">> >>

MethodDefinitionKind ==
    << <<"Method", "method">>, <<"Constructor", "constructor">>,
       <<"Get", "get">>, <<"Set", "set">> >>

ImportKind ==
    << <<"Value", "value">>, <<"Type", "type">>, <<"Typeof", "typeof">> >>

ExportKind ==
    << <<"Value", "value">>, <<"Type", "type">> >>

\* The ten enums by name.
StrEnums ==
    [UnaryExpressionOperator      |-> UnaryExpressionOperator,
     BinaryExpressionOperator     |-> BinaryExpressionOperator,
     LogicalExpressionOperator    |-> LogicalExpressionOperator,
     UpdateExpressionOperator     |-> UpdateExpressionOperator,
     AssignmentExpressionOperator |-> AssignmentExpressionOperator,
     VariableDeclarationKind      |-> VariableDeclarationKind,
     PropertyKind                 |-> PropertyKind,
     MethodDefinitionKind         |-> MethodDefinitionKind,
     ImportKind                   |-> ImportKind,
     ExportKind                   |-> ExportKind]

\* The variants an enum declares: one per pair of its table.
Variants(table) == {table[i][1] : i \in DOMAIN table}

\* The texts of a table.
Texts(table) == {table[i][2] : i \in DOMAIN table}

\* The failure of a conversion from a string.
TryFromStringError == <<"Err", "TryFromStringError">>

Ok(variant) == <<"Ok", variant>>

\* The first arm of a match over the table whose pattern is `key`, 0 when no
\* arm has it: the arms are tried in the order of the table.  The patterns
\* are the variants (column 1) in as_str and the texts (column 2) in try_from.
first_arm(table, column, key) ==
    LET hits == {i \in DOMAIN table : table[i][column] = key}
    IN  IF hits = {} THEN 0 ELSE CHOOSE i \in hits : \A j \in hits : i <= j

\* The conversion of a variant to its text.
as_str(table, variant) == table[first_arm(table, 1, variant)][2]

\* The conversion of a string to a variant: TryFrom<&str>.
try_from(table, str) ==
    LET arm == first_arm(table, 2, str)
    IN  IF arm = 0 THEN TryFromStringError ELSE Ok(table[arm][1])

\* No conversion has been made.
NoConv == [op |-> "none", enum |-> "", variant |-> "", str |-> "", result |-> <<"", "">>]

(***************************************************************************)
(* The state of the program.                                               *)
(***************************************************************************)
VARIABLES
    NEXT_ID,            \* the static AtomicU32 of Context::new
    mem,                \* the Context objects, by key
    ctx_state,          \* per key: "none", "live" or "dropped"
    GCCONTEXT_IN_USE,   \* the thread-local flag, per thread
    gcs,                \* the GCContext objects in existence
    ptrs,               \* the NodePtr values in existence, a bag
    debug_assertions,   \* whether the build has debug assertions
    limits,             \* the size of the program, fixed at the start
    last,               \* the last call and how it ended
    marked_in_last_gc,  \* per key: the entries the last gc marked
    allocated_since_gc, \* per key: the entries alloc returned since the last gc
    walk,               \* the walk over a node list in progress, if any
    new_calls,          \* the calls of Context::new in progress, and the ids issued
    conv                \* the string conversion of an operator or kind enum made last

vars == <<NEXT_ID, mem, ctx_state, GCCONTEXT_IN_USE, gcs, ptrs, debug_assertions,
          limits, last, marked_in_last_gc, allocated_since_gc, walk, new_calls, conv>>

Call(op, res, node, ptr) ==
    [op |-> op, res |-> res, node |-> node, ptr |-> ptr]

\* Nothing is constructed yet; NEXT_ID is FREE_ENTRY + 1.
Start(size) ==
    /\ NEXT_ID = U32Inc(FREE_ENTRY)
    /\ mem = [c \in CtxKeys |-> NoContext]
    /\ ctx_state = [c \in CtxKeys |-> "none"]
    /\ GCCONTEXT_IN_USE = [t \in Threads |-> FALSE]
    /\ gcs = {}
    /\ ptrs = EmptyBag
    /\ debug_assertions \in BOOLEAN
    /\ limits = size
    /\ last = Call("start", "ok", NoRef, NoPtr)
    /\ marked_in_last_gc = [c \in CtxKeys |-> {}]
    /\ allocated_since_gc = [c \in CtxKeys |-> {}]
    /\ walk = NoWalk
    /\ new_calls = NoCalls
    /\ conv = NoConv

Live(c) == ctx_state[c] = "live"

\* A GCContext holds the &mut borrow of its Context.
Borrowed(c) == \E g \in gcs : g.ctx = c

\* The slots appended to chunks so far, all Contexts together.
SlotsUsed ==
    LET RECURSIVE Sum(_)
        Sum(k) == IF k = 0 THEN 0
                  ELSE Sum(k - 1) + (IF Live(k) THEN Len(EntryAddrs(k, mem[k])) ELSE 0)
    IN  Sum(limits.contexts)

\* The node references a piece of code can get at from the references refs it
\* holds, by reading child fields.
RECURSIVE Reachable(_, _)
Reachable(m, refs) ==
    LET next == refs \cup UNION {Range(Entry(m, r.entry).inner.children) : r \in refs}
    IN  IF next = refs THEN refs ELSE Reachable(m, next)

(***************************************************************************)
(* The operations.                                                         *)
(***************************************************************************)
\* Context::new.
ContextNew ==
    /\ \E c \in 1..limits.contexts : ctx_state[c] = "none"
    /\ LET c == CHOOSE k \in CtxKeys :
                    ctx_state[k] = "none" /\ \A j \in 1..(k - 1) : ctx_state[j] # "none"
       IN  /\ mem' = [mem EXCEPT ![c] = Context_new(NEXT_ID_fetch_add(NEXT_ID).id,
                                                    MinChunkCap, MaxChunkCap)]
           /\ ctx_state' = [ctx_state EXCEPT ![c] = "live"]
           /\ last' = Call("Context::new", "ok", NoRef, NoPtr)
    /\ NEXT_ID' = NEXT_ID_fetch_add(NEXT_ID).next
    /\ UNCHANGED <<GCCONTEXT_IN_USE, gcs, ptrs, debug_assertions, limits, walk, new_calls,
                   marked_in_last_gc, allocated_since_gc, conv>>

\* Drop for Context.  The memory is released whether or not drop panics.
ContextDrop(c) ==
    /\ Live(c) /\ ~Borrowed(c)
    /\ LET r == Context_drop(mem, c, debug_assertions)
       IN  last' = Call("Context::drop", r.res, r.node, NoPtr)
    /\ mem' = [mem EXCEPT ![c] = NoContext]
    /\ ctx_state' = [ctx_state EXCEPT ![c] = "dropped"]
    /\ marked_in_last_gc' = [marked_in_last_gc EXCEPT ![c] = {}]
    /\ allocated_since_gc' = [allocated_since_gc EXCEPT ![c] = {}]
    /\ UNCHANGED <<NEXT_ID, GCCONTEXT_IN_USE, gcs, ptrs, debug_assertions, limits, walk, new_calls, conv>>

\* GCContext::new(ctx) on thread t.  The call can be written when the Context
\* is not borrowed; it is also tried on a thread that has a GCContext already.
GCContextNew(t, c) ==
    /\ Live(c)
    /\ GCCONTEXT_IN_USE[t] \/ ~Borrowed(c)
    /\ LET r == GCContext_new(GCCONTEXT_IN_USE[t])
       IN  /\ GCCONTEXT_IN_USE' = [GCCONTEXT_IN_USE EXCEPT ![t] = r.in_use]
           /\ gcs' = IF r.res = "ok"
                     THEN gcs \cup {[thread |-> t, ctx |-> c, refs |-> {}]}
                     ELSE gcs
           /\ last' = Call("GCContext::new", r.res, NoRef, NoPtr)
    /\ UNCHANGED <<NEXT_ID, mem, ctx_state, ptrs, debug_assertions, limits, walk, new_calls,
                   marked_in_last_gc, allocated_since_gc, conv>>

\* Drop for GCContext, on the thread that made it.
GCContextDrop(g) ==
    /\ g \in gcs
    /\ gcs' = gcs \ {g}
    /\ GCCONTEXT_IN_USE' =
           [GCCONTEXT_IN_USE EXCEPT ![g.thread] = GCContext_drop(@)]
    /\ last' = Call("GCContext::drop", "ok", NoRef, NoPtr)
    /\ UNCHANGED <<NEXT_ID, mem, ctx_state, ptrs, debug_assertions, limits, walk, new_calls,
                   marked_in_last_gc, allocated_since_gc, conv>>

\* The templates a session can build: a literal, or a binary expression over
\* two node references the session can get at.
Templates(g) ==
    {NumericLiteral(v) : v \in Values}
    \cup {BinaryExpression("+", l, r) : l, r \in Reachable(mem, g.refs)}

\* GCContext::alloc, which is Context::alloc.
Alloc(g, n) ==
    /\ g \in gcs
    /\ mem[g.ctx].free # <<>> \/ SlotsUsed < limits.entries
    /\ LET r == alloc(mem, g.ctx, n, MaxChunkCap, debug_assertions)
       IN  /\ mem' = r.mem
           /\ gcs' = IF r.res = "ok"
                     THEN (gcs \ {g}) \cup {[g EXCEPT !.refs = @ \cup {r.node}]}
                     ELSE gcs
           /\ allocated_since_gc' =
                  IF r.res = "ok" /\ limits.history
                  THEN [allocated_since_gc EXCEPT ![g.ctx] = @ \cup {r.node.entry}]
                  ELSE allocated_since_gc
           /\ last' = Call("alloc", r.res, r.node, NoPtr)
    /\ UNCHANGED <<NEXT_ID, ctx_state, GCCONTEXT_IN_USE, ptrs, debug_assertions, limits, walk, new_calls,
                   marked_in_last_gc, conv>>

\* NodePtr::from_node(gc, node).
NodePtrFromNode(g, node) ==
    /\ g \in gcs
    /\ node \in Reachable(mem, g.refs)
    /\ BagCardinality(ptrs) < limits.ptrs
    /\ LET r == NodePtr_from_node(mem, g.ctx, node)
       IN  /\ mem' = r.mem
           /\ ptrs' = ptrs (+) SetToBag({r.ptr})
           /\ last' = Call("NodePtr::from_node", "ok", node, r.ptr)
    /\ UNCHANGED <<NEXT_ID, ctx_state, GCCONTEXT_IN_USE, gcs, debug_assertions, limits, walk, new_calls,
                   marked_in_last_gc, allocated_since_gc, conv>>

\* p.clone().  After a Context was dropped its NodePtrs dangle and are not
\* used any more.
NodePtrClone(p) ==
    /\ BagIn(p, ptrs) /\ Live(p.counter)
    /\ BagCardinality(ptrs) < limits.ptrs
    /\ LET r == NodePtr_clone(mem, p)
       IN  /\ mem' = r.mem
           /\ ptrs' = ptrs (+) SetToBag({r.ptr})
           /\ last' = Call("NodePtr::clone", "ok", NoRef, r.ptr)
    /\ UNCHANGED <<NEXT_ID, ctx_state, GCCONTEXT_IN_USE, gcs, debug_assertions, limits, walk, new_calls,
                   marked_in_last_gc, allocated_since_gc, conv>>

\* drop(p).
NodePtrDrop(p) ==
    /\ BagIn(p, ptrs) /\ Live(p.counter)
    /\ LET r == NodePtr_drop(mem, p, debug_assertions)
       IN  /\ mem' = r.mem
           /\ last' = Call("NodePtr::drop", r.res, NoRef, p)
    /\ ptrs' = ptrs (-) SetToBag({p})
    /\ UNCHANGED <<NEXT_ID, ctx_state, GCCONTEXT_IN_USE, gcs, debug_assertions, limits, walk, new_calls,
                   marked_in_last_gc, allocated_since_gc, conv>>

\* p.node(gc).
NodePtrNode(g, p) ==
    /\ g \in gcs
    /\ BagIn(p, ptrs) /\ Live(p.counter)
    /\ LET r == NodePtr_node(mem, p, g.ctx)
       IN  /\ gcs' = IF r.res = "ok"
                     THEN (gcs \ {g}) \cup {[g EXCEPT !.refs = @ \cup {r.node}]}
                     ELSE gcs
           /\ last' = Call("NodePtr::node", r.res, r.node, p)
    /\ UNCHANGED <<NEXT_ID, mem, ctx_state, GCCONTEXT_IN_USE, ptrs, debug_assertions, limits, walk, new_calls,
                   marked_in_last_gc, allocated_since_gc, conv>>

\* ctx.gc() on thread t; it needs the &mut borrow of the Context.
GC(t, c) ==
    /\ Live(c) /\ ~Borrowed(c)
    /\ LET r == gc(mem, c, GCCONTEXT_IN_USE[t], debug_assertions)
       IN  /\ mem' = r.mem
           /\ GCCONTEXT_IN_USE' = [GCCONTEXT_IN_USE EXCEPT ![t] = r.in_use]
           /\ marked_in_last_gc' =
                  IF r.res = "ok" /\ limits.history
                  THEN [marked_in_last_gc EXCEPT ![c] = r.marked]
                  ELSE marked_in_last_gc
           /\ allocated_since_gc' =
                  IF r.res = "ok"
                  THEN [allocated_since_gc EXCEPT ![c] = {}]
                  ELSE allocated_since_gc
           /\ last' = Call("gc", r.res, NoRef, NoPtr)
    /\ UNCHANGED <<NEXT_ID, ctx_state, gcs, ptrs, debug_assertions, limits, walk, new_calls, conv>>

Next ==
    \/ ContextNew
    \/ \E c \in CtxKeys : ContextDrop(c)
    \/ \E t \in limits.threads, c \in CtxKeys : GCContextNew(t, c)
    \/ \E g \in gcs : GCContextDrop(g)
    \/ \E g \in gcs : \E n \in Templates(g) : Alloc(g, n)
    \/ \E g \in gcs : \E node \in Reachable(mem, g.refs) : NodePtrFromNode(g, node)
    \/ \E p \in BagToSet(ptrs) : NodePtrClone(p)
    \/ \E p \in BagToSet(ptrs) : NodePtrDrop(p)
    \/ \E g \in gcs : \E p \in BagToSet(ptrs) : NodePtrNode(g, p)
    \/ \E t \in limits.threads, c \in CtxKeys : GC(t, c)

Init == Start(OneContext)

InitHistory == Start(OneContextHistory)

InitSessions == Start(ManyContexts)

\* One Context used from one thread.
Spec == Init /\ [][Next]_vars

\* The same, with the history variables recorded.
SpecHistory == InitHistory /\ [][Next]_vars

\* Several Contexts used from two threads.
SpecSessions == InitSessions /\ [][Next]_vars

\* ctx.enable_strict_mode(); it needs the &mut borrow of the Context.
EnableStrictMode(c) ==
    /\ Live(c) /\ ~Borrowed(c)
    /\ mem' = [mem EXCEPT ![c] = enable_strict_mode(@)]
    /\ last' = Call("enable_strict_mode", "ok", NoRef, NoPtr)
    /\ UNCHANGED <<NEXT_ID, ctx_state, GCCONTEXT_IN_USE, gcs, ptrs, debug_assertions,
                   limits, walk, new_calls, marked_in_last_gc, allocated_since_gc, conv>>

NextStrict ==
    \/ Next
    \/ \E c \in CtxKeys : EnableStrictMode(c)

\* One Context used from one thread, enable_strict_mode among the operations.
SpecStrict == Init /\ [][NextStrict]_vars

(***************************************************************************)
(* One fresh Context with the chunk capacities of the source.  Only alloc  *)
(* with an empty free list and new_chunk are run, so that the chunks can   *)
(* be followed up to MAX_CHUNK_CAPACITY.                                   *)
(***************************************************************************)
MIN_CHUNK_CAPACITY == 1024
MAX_CHUNK_CAPACITY == MIN_CHUNK_CAPACITY * 1024

\* The chunks new_chunk is followed to, and the allocations made.
MaxChunks == 12
MaxFreshAllocs == 1026

FreshContext ==
    [threads |-> {"t1"}, contexts |-> 1, entries |-> MaxFreshAllocs, ptrs |-> 0,
     history |-> FALSE]

\* The entries stored in the chunks of a Context.
RECURSIVE EntryCount(_, _)
EntryCount(cx, k) ==
    IF k = 0 THEN 0 ELSE EntryCount(cx, k - 1) + Len(cx.nodes[k].ents)

\* Context::new has returned the first Context of the process.
InitChunks ==
    /\ NEXT_ID = U32Inc(U32Inc(FREE_ENTRY))
    /\ mem = [c \in CtxKeys |->
                 IF c = 1
                 THEN Context_new(U32Inc(FREE_ENTRY), MIN_CHUNK_CAPACITY,
                                  MAX_CHUNK_CAPACITY)
                 ELSE NoContext]
    /\ ctx_state = [c \in CtxKeys |-> IF c = 1 THEN "live" ELSE "none"]
    /\ GCCONTEXT_IN_USE = [t \in Threads |-> FALSE]
    /\ gcs = {}
    /\ ptrs = EmptyBag
    /\ debug_assertions \in BOOLEAN
    /\ limits = FreshContext
    /\ last = Call("Context::new", "ok", NoRef, NoPtr)
    /\ marked_in_last_gc = [c \in CtxKeys |-> {}]
    /\ allocated_since_gc = [c \in CtxKeys |-> {}]
    /\ walk = NoWalk
    /\ new_calls = NoCalls
    /\ conv = NoConv

\* Context::alloc of a literal.
ChunkAlloc ==
    /\ EntryCount(mem[1], Len(mem[1].nodes)) < limits.entries
    /\ LET r == alloc(mem, 1, NumericLiteral(1), MAX_CHUNK_CAPACITY, debug_assertions)
       IN  /\ mem' = r.mem
           /\ last' = Call("alloc", r.res, r.node, NoPtr)
    /\ UNCHANGED <<NEXT_ID, ctx_state, GCCONTEXT_IN_USE, gcs, ptrs, debug_assertions,
                   limits, walk, new_calls, marked_in_last_gc, allocated_since_gc, conv>>

\* Context::new_chunk by itself, on a Context that holds no entry yet: the
\* chunk that alloc would add once the last chunk has filled.
ChunkNew ==
    /\ EntryCount(mem[1], Len(mem[1].nodes)) = 0
    /\ Len(mem[1].nodes) < MaxChunks
    /\ mem' = [mem EXCEPT ![1] = new_chunk(@, MAX_CHUNK_CAPACITY)]
    /\ last' = Call("new_chunk", "ok", NoRef, NoPtr)
    /\ UNCHANGED <<NEXT_ID, ctx_state, GCCONTEXT_IN_USE, gcs, ptrs, debug_assertions,
                   limits, walk, new_calls, marked_in_last_gc, allocated_since_gc, conv>>

NextChunks == ChunkAlloc \/ ChunkNew

SpecChunks == InitChunks /\ [][NextChunks]_vars

(***************************************************************************)
(* The walks over a node list.  The list, the parent and the answers of    *)
(* the visitor are the inputs.                                             *)
(***************************************************************************)
\* The length of the lists walked, and the node references they are made of.
MaxListLen == 3
MaxWalkRefs == 2

\* The references a list can hold, and the one more a visitor can answer.
ListRefs == {InnerRef(<<1, 1, i>>) : i \in 1..MaxWalkRefs}

VisitorRefs == {InnerRef(<<1, 1, i>>) : i \in 1..(MaxWalkRefs + 1)}

\* The nodes that contain the list: one that is also an element, one that is not.
Parents == {InnerRef(<<1, 1, 1>>), InnerRef(<<1, 2, 1>>)}

NodeLists == UNION {[1..n -> ListRefs] : n \in 0..MaxListLen}

Answers == {Unchanged} \cup {Changed(r) : r \in VisitorRefs}

NoSessions ==
    [threads |-> {"t1"}, contexts |-> 0, entries |-> 0, ptrs |-> 0, history |-> FALSE]

InitWalk == Start(NoSessions)

\* list.visit_child(ctx, visitor, parent) or
\* list.visit_child_mut(ctx, visitor, parent) is entered.
WalkEnter(mode, list, parent) ==
    /\ walk.pc = "idle"
    /\ walk' = walk_enter(mode, list, parent)
    /\ UNCHANGED <<NEXT_ID, mem, ctx_state, GCCONTEXT_IN_USE, gcs, ptrs,
                   debug_assertions, limits, last, marked_in_last_gc,
                   allocated_since_gc, new_calls, conv>>

\* The for loop of visit_child calls the visitor.
WalkVisit ==
    /\ walk.mode = "visit_child" /\ walk.pc = "loop"
    /\ walk.index < Len(walk.list)
    /\ walk' = visit_child(walk)
    /\ UNCHANGED <<NEXT_ID, mem, ctx_state, GCCONTEXT_IN_USE, gcs, ptrs,
                   debug_assertions, limits, last, marked_in_last_gc,
                   allocated_since_gc, new_calls, conv>>

\* The outer loop of visit_child_mut calls the visitor, which answers.
WalkOuter(answer) ==
    /\ walk.mode = "visit_child_mut" /\ walk.pc = "loop"
    /\ walk.index < Len(walk.list)
    /\ walk' = visit_child_mut_outer(walk, answer)
    /\ UNCHANGED <<NEXT_ID, mem, ctx_state, GCCONTEXT_IN_USE, gcs, ptrs,
                   debug_assertions, limits, last, marked_in_last_gc,
                   allocated_since_gc, new_calls, conv>>

\* The inner loop of visit_child_mut calls the visitor, which answers.
WalkInner(answer) ==
    /\ walk.mode = "visit_child_mut" /\ walk.pc = "rest"
    /\ walk.index < Len(walk.list)
    /\ walk' = visit_child_mut_inner(walk, answer)
    /\ UNCHANGED <<NEXT_ID, mem, ctx_state, GCCONTEXT_IN_USE, gcs, ptrs,
                   debug_assertions, limits, last, marked_in_last_gc,
                   allocated_since_gc, new_calls, conv>>

\* The loop the walk is in has ended, and the walk returns.
WalkReturn ==
    /\ walk.pc \in {"loop", "rest"}
    /\ walk.index >= Len(walk.list)
    /\ walk' = walk_return(walk)
    /\ UNCHANGED <<NEXT_ID, mem, ctx_state, GCCONTEXT_IN_USE, gcs, ptrs,
                   debug_assertions, limits, last, marked_in_last_gc,
                   allocated_since_gc, new_calls, conv>>

NextWalk ==
    \/ \E mode \in {"visit_child", "visit_child_mut"}, list \in NodeLists,
          parent \in Parents : WalkEnter(mode, list, parent)
    \/ WalkVisit
    \/ \E answer \in Answers : WalkOuter(answer)
    \/ \E answer \in Answers : WalkInner(answer)
    \/ WalkReturn

SpecWalk == InitWalk /\ [][NextWalk]_vars

(***************************************************************************)
(* Context::new called from two threads, followed from the fetch_add on    *)
(* NEXT_ID to the return of the Context.                                   *)
(***************************************************************************)
InitIds == Start(ContextsOnly)

\* The Context objects made or being made.
ContextsStarted ==
    Cardinality({c \in CtxKeys : ctx_state[c] # "none"})
        + Cardinality({t \in Threads : new_calls.pending[t].fetched})

\* Thread t enters Context::new and takes its id from NEXT_ID.
NewFetch(t) ==
    /\ ~new_calls.pending[t].fetched
    /\ ContextsStarted < limits.contexts
    /\ LET r == NEXT_ID_fetch_add(NEXT_ID)
       IN  /\ NEXT_ID' = r.next
           /\ new_calls' = [new_calls EXCEPT
                               !.pending[t] = [fetched |-> TRUE, id |-> r.id],
                               !.issued = Append(@, r.id)]
    /\ UNCHANGED <<mem, ctx_state, GCCONTEXT_IN_USE, gcs, ptrs, debug_assertions,
                   limits, last, marked_in_last_gc, allocated_since_gc, walk, conv>>

\* Thread t builds the Context with the id it took, and Context::new returns.
NewReturn(t) ==
    /\ new_calls.pending[t].fetched
    /\ LET c == CHOOSE k \in CtxKeys :
                    ctx_state[k] = "none" /\ \A j \in 1..(k - 1) : ctx_state[j] # "none"
       IN  /\ mem' = [mem EXCEPT ![c] = Context_new(new_calls.pending[t].id,
                                                    MinChunkCap, MaxChunkCap)]
           /\ ctx_state' = [ctx_state EXCEPT ![c] = "live"]
    /\ new_calls' = [new_calls EXCEPT !.pending[t] = NoCalls.pending[t]]
    /\ last' = Call("Context::new", "ok", NoRef, NoPtr)
    /\ UNCHANGED <<NEXT_ID, GCCONTEXT_IN_USE, gcs, ptrs, debug_assertions,
                   limits, marked_in_last_gc, allocated_since_gc, walk, conv>>

NextIds ==
    \/ \E t \in limits.threads : NewFetch(t)
    \/ \E t \in limits.threads : NewReturn(t)
    \/ \E c \in CtxKeys : ContextDrop(c)

SpecIds == InitIds /\ [][NextIds]_vars

(***************************************************************************)
(* The conversions of the operator and kind enums: a variant to its text,  *)
(* a string to a variant, and the text of a variant back to a variant.     *)
(***************************************************************************)
InitConv == Start(NoSessions)

\* The strings converted: every text of every table, and strings that are
\* the text of no variant (one of them the name of a variant).
Strs ==
    UNION {Texts(StrEnums[e]) : e \in DOMAIN StrEnums} \cup {"foo", "", "StrictEquals"}

\* variant.as_str()
AsStr(e, variant) ==
    /\ conv' = [op |-> "as_str", enum |-> e, variant |-> variant,
                str |-> as_str(StrEnums[e], variant), result |-> NoConv.result]
    /\ UNCHANGED <<NEXT_ID, mem, ctx_state, GCCONTEXT_IN_USE, gcs, ptrs, debug_assertions,
                   limits, last, marked_in_last_gc, allocated_since_gc, walk, new_calls>>

\* Enum::try_from(str)
TryFrom(e, str) ==
    /\ conv' = [op |-> "try_from", enum |-> e, variant |-> "",
                str |-> str, result |-> try_from(StrEnums[e], str)]
    /\ UNCHANGED <<NEXT_ID, mem, ctx_state, GCCONTEXT_IN_USE, gcs, ptrs, debug_assertions,
                   limits, last, marked_in_last_gc, allocated_since_gc, walk, new_calls>>

\* Enum::try_from(variant.as_str()), the text being the one as_str returned.
TryFromAsStr ==
    /\ conv.op = "as_str"
    /\ conv' = [conv EXCEPT !.op = "try_from(as_str)",
                            !.result = try_from(StrEnums[conv.enum], conv.str)]
    /\ UNCHANGED <<NEXT_ID, mem, ctx_state, GCCONTEXT_IN_USE, gcs, ptrs, debug_assertions,
                   limits, last, marked_in_last_gc, allocated_since_gc, walk, new_calls>>

NextConv ==
    \/ \E e \in DOMAIN StrEnums : \E variant \in Variants(StrEnums[e]) : AsStr(e, variant)
    \/ \E e \in DOMAIN StrEnums : \E str \in Strs : TryFrom(e, str)
    \/ TryFromAsStr

SpecConv == InitConv /\ [][NextConv]_vars

(***************************************************************************)
(* Contexts made late in the life of the process: NEXT_ID has any value    *)
(* the counter takes, the values around 2^31 and around the wrap among     *)
(* them.                                                                   *)
(***************************************************************************)
\* The values of NEXT_ID the specification starts from: 1, 2^31 - 1, 2^31,
\* 2^31 + 1, 2^32 - 1 and, after the wrap, 0.
LateIds ==
    {U32Inc(FREE_ENTRY), U32(Low31Max), U32Inc(U32(Low31Max)),
     U32Inc(U32Inc(U32(Low31Max))), [hi |-> 1, lo |-> Low31Max],
     U32Inc([hi |-> 1, lo |-> Low31Max])}

\* One Context used from one thread, with one NodePtr at a time.
OneContextLate == [OneContext EXCEPT !.ptrs = 1]

InitLate ==
    /\ NEXT_ID \in LateIds
    /\ mem = [c \in CtxKeys |-> NoContext]
    /\ ctx_state = [c \in CtxKeys |-> "none"]
    /\ GCCONTEXT_IN_USE = [t \in Threads |-> FALSE]
    /\ gcs = {}
    /\ ptrs = EmptyBag
    /\ debug_assertions \in BOOLEAN
    /\ limits = OneContextLate
    /\ last = Call("start", "ok", NoRef, NoPtr)
    /\ marked_in_last_gc = [c \in CtxKeys |-> {}]
    /\ allocated_since_gc = [c \in CtxKeys |-> {}]
    /\ walk = NoWalk
    /\ new_calls = NoCalls
    /\ conv = NoConv

NextLate ==
    \/ ContextNew
    \/ \E t \in limits.threads, c \in CtxKeys : GCContextNew(t, c)
    \/ \E g \in gcs : GCContextDrop(g)
    \/ \E g \in gcs : \E n \in Templates(g) : Alloc(g, n)
    \/ \E g \in gcs : \E node \in Reachable(mem, g.refs) : NodePtrFromNode(g, node)
    \/ \E p \in BagToSet(ptrs) : NodePtrDrop(p)
    \/ \E g \in gcs : \E p \in BagToSet(ptrs) : NodePtrNode(g, p)
    \/ \E t \in limits.threads, c \in CtxKeys : GC(t, c)

SpecLate == InitLate /\ [][NextLate]_vars

(***************************************************************************)
(* Vocabulary of the properties.                                           *)
(***************************************************************************)
Panicked(res) == res # "ok"

\* The used slots of Context c in memory m, and those holding a live entry.
Slots(m, c) == Range(EntryAddrs(c, m[c]))

LiveEntries(m, c) == {a \in Slots(m, c) : ~is_free(Entry(m, a))}

\* The entries reachable through child references from the entries with a
\* positive handle count.
HandleReachable(m, c) ==
    {r.entry : r \in Reachable(m, {InnerRef(a) : a \in
                                    {b \in LiveEntries(m, c) : Entry(m, b).count > 0}})}

Reclaimable(m, c, a) ==
    Entry(m, a).count = 0 /\ a \notin HandleReachable(m, c)

\* The NodePtr values in existence whose counter is that of Context c.
PtrsInto(c) ==
    BagCardinality([p \in {q \in BagToSet(ptrs) : q.counter = c} |-> CopiesIn(p, ptrs)])

RECURSIVE SumCounts(_, _, _)
SumCounts(m, addrs, i) ==
    IF i > Len(addrs) THEN 0
    ELSE Entry(m, addrs[i]).count + SumCounts(m, addrs, i + 1)

(***************************************************************************)
(* C1                                                                      *)
(***************************************************************************)
\* C1: after any call of Context::gc, an entry that was live before the call
\* is free afterwards if and only if its handle count is zero and it is not
\* reachable through child references from an entry with a positive count.
gc_reclaims_exactly_unreachable ==
    [][\A t \in limits.threads, c \in CtxKeys :
          GC(t, c) =>
              \A a \in LiveEntries(mem, c) :
                  is_free(Entry(mem', a)) <=> Reclaimable(mem, c, a)]_vars

\* C1, for the calls of gc that return: the same equivalence.
gc_reclaims_exactly_unreachable_on_return ==
    [][\A t \in limits.threads, c \in CtxKeys :
          (GC(t, c) /\ last'.res = "ok") =>
              \A a \in LiveEntries(mem, c) :
                  is_free(Entry(mem', a)) <=> Reclaimable(mem, c, a)]_vars

\* C1: a call of gc has panicked on the debug assertion of its root loop and
\* left a reclaimable entry live.
gc_panicked_with_garbage ==
    /\ last.op = "gc"
    /\ last.res = "panic: Entry marked before start of GC"
    /\ \E c \in CtxKeys :
          Live(c) /\ \E a \in LiveEntries(mem, c) : Reclaimable(mem, c, a)

(***************************************************************************)
(* C2                                                                      *)
(***************************************************************************)
\* C2: a NodePtr made by from_node from a node reference points at the slot of
\* that reference; while the NodePtr exists no operation (gc, alloc, handle
\* operation) frees that slot or changes its payload; and node() through a
\* session over the same Context returns that slot.
NodePtr_node_returns_the_slot ==
    [][/\ \A p \in BagToSet(ptrs) :
            (BagIn(p, ptrs') /\ Live(p.counter) /\ ctx_state'[p.counter] = "live") =>
                /\ ~is_free(Entry(mem', p.entry))
                /\ Entry(mem', p.entry).inner = Entry(mem, p.entry).inner
       /\ (last'.op = "NodePtr::from_node") =>
                /\ last'.ptr.entry = last'.node.entry
                /\ ~is_free(Entry(mem', last'.ptr.entry))
       /\ \A g \in gcs : \A p \in BagToSet(ptrs) :
            (NodePtrNode(g, p) /\ g.ctx = p.counter) =>
                /\ last'.res = "ok"
                /\ last'.node = InnerRef(p.entry)]_vars

\* C2: a NodePtr was dereferenced in a session opened after a gc that freed
\* some other entry.
NodePtr_dereferenced_after_gc ==
    /\ last.op = "NodePtr::node" /\ last.res = "ok"
    /\ ~mem[last.ptr.counter].markbit_marked
    /\ mem[last.ptr.counter].free # <<>>

(***************************************************************************)
(* C3                                                                      *)
(***************************************************************************)
\* C3: a thread has at most one GCContext at any time, and its in-use flag is
\* set exactly while it has one; GCContext::new on a thread that has a
\* GCContext (over the same or another Context) panics, creates no session
\* and leaves the flag set.
one_GCContext_per_thread ==
    /\ [](\A t \in Threads :
            /\ Cardinality({g \in gcs : g.thread = t}) <= 1
            /\ GCCONTEXT_IN_USE[t] <=> (\E g \in gcs : g.thread = t))
    /\ [][\A t \in limits.threads, c \in CtxKeys :
            (GCContextNew(t, c) /\ \E g \in gcs : g.thread = t) =>
                /\ last'.res = "panic: Attempt to create multiple GCContexts in a single thread"
                /\ gcs' = gcs
                /\ GCCONTEXT_IN_USE'[t]]_vars

\* C3: GCContext::new has panicked on a thread whose session is over another
\* Context than the one passed.
second_GCContext_refused ==
    /\ last.op = "GCContext::new" /\ Panicked(last.res)
    /\ \E g \in gcs : \E c \in CtxKeys : Live(c) /\ c # g.ctx /\ ~Borrowed(c)

(***************************************************************************)
(* C4                                                                      *)
(***************************************************************************)
\* C4: NodePtr::node(gc) panics if and only if the id of the Context behind gc
\* differs from the ctx_id of the NodePtr's counter, which is so if and only
\* if that Context is not the one the NodePtr was created in; when it panics
\* it returns no node reference.
NodePtr_node_panics_iff_other_Context ==
    [][\A g \in gcs : \A p \in BagToSet(ptrs) :
          NodePtrNode(g, p) =>
              /\ Panicked(last'.res) <=>
                     (mem[g.ctx].id # mem[p.counter].nodeptr_count.ctx_id)
              /\ Panicked(last'.res) <=> (g.ctx # p.counter)
              /\ Panicked(last'.res) => (last'.node = NoRef /\ gcs' = gcs)
              /\ ~Panicked(last'.res) => last'.node = InnerRef(p.entry)]_vars

\* C4: a NodePtr has been dereferenced through a session over another Context.
NodePtr_node_panicked ==
    /\ last.op = "NodePtr::node" /\ Panicked(last.res)
    /\ \E g \in gcs : g.ctx # last.ptr.counter

(***************************************************************************)
(* C5                                                                      *)
(***************************************************************************)
\* C5: in every state of a Context the count fields of its storage entries add
\* up to the count of its NodePtrCounter, and both equal the number of NodePtr
\* values in existence for that Context.
counts_agree ==
    \A c \in CtxKeys :
        Live(c) =>
            /\ SumCounts(mem, EntryAddrs(c, mem[c]), 1) = mem[c].nodeptr_count.count
            /\ mem[c].nodeptr_count.count = PtrsInto(c)

\* C5: after a gc, a clone has made the second NodePtr of a Context.
counts_agree_after_gc_and_clone ==
    \E c \in CtxKeys :
        /\ Live(c) /\ mem[c].nodeptr_count.count = 2
        /\ ~mem[c].markbit_marked
        /\ last.op = "NodePtr::clone"

(***************************************************************************)
(* C6                                                                      *)
(***************************************************************************)
\* C6: dropping a Context panics if and only if a NodePtr into it exists
\* (the count of its NodePtrCounter is positive); in a debug build the panic
\* is the per-entry assertion, which names an entry with a nonzero count, and
\* in a release build it is the generic panic.
Context_drop_panics_iff_NodePtr_left ==
    [][\A c \in CtxKeys :
          ContextDrop(c) =>
              /\ Panicked(last'.res) <=> (mem[c].nodeptr_count.count > 0)
              /\ Panicked(last'.res) <=> (PtrsInto(c) > 0)
              /\ (Panicked(last'.res) /\ debug_assertions) =>
                    /\ last'.res = "panic: NodePtr must not outlive Context: node"
                    /\ Entry(mem, last'.node.entry).count # 0
              /\ (Panicked(last'.res) /\ ~debug_assertions) =>
                    last'.res = "panic: NodePtr must not outlive Context"]_vars

\* C6: a Context was dropped in a debug build while a NodePtr into it existed.
Context_dropped_with_NodePtr ==
    /\ last.op = "Context::drop" /\ Panicked(last.res)
    /\ debug_assertions
    /\ ptrs # EmptyBag

(***************************************************************************)
(* C7                                                                      *)
(***************************************************************************)
\* The mark bit of every live entry is the negation of markbit_marked.
Unmarked(c) ==
    \A a \in LiveEntries(mem, c) : markbit(Entry(mem, a)) = ~mem[c].markbit_marked

\* C7: between gc calls every non-free entry's mark bit is the negation of
\* markbit_marked; each call of gc toggles markbit_marked once, and no other
\* operation changes it.
markbit_marked_toggles_on_every_gc ==
    /\ [](\A c \in CtxKeys : Live(c) => Unmarked(c))
    /\ [][\A c \in CtxKeys :
            (Live(c) /\ ctx_state'[c] = "live") =>
                IF \E t \in limits.threads : GC(t, c)
                THEN mem'[c].markbit_marked = ~mem[c].markbit_marked
                ELSE mem'[c].markbit_marked = mem[c].markbit_marked]_vars

\* C7, for the calls of gc that return: the same, a call of gc that panics
\* leaving markbit_marked as it was.
markbit_marked_toggles_on_every_gc_return ==
    /\ [](\A c \in CtxKeys : Live(c) => Unmarked(c))
    /\ [][\A c \in CtxKeys :
            (Live(c) /\ ctx_state'[c] = "live") =>
                IF \E t \in limits.threads : GC(t, c) /\ last'.res = "ok"
                THEN mem'[c].markbit_marked = ~mem[c].markbit_marked
                ELSE mem'[c].markbit_marked = mem[c].markbit_marked]_vars

\* C7: a call of gc has panicked in a Context that a gc had run on before, and
\* markbit_marked is what the earlier gc left.
gc_panicked_without_toggle ==
    /\ last.op = "gc" /\ Panicked(last.res)
    /\ \E c \in CtxKeys : Live(c) /\ ~mem[c].markbit_marked /\ mem[c].free # <<>>

(***************************************************************************)
(* C8                                                                      *)
(***************************************************************************)
\* C8: a call of gc that follows a call of gc that returned, with nothing in
\* between, returns, and leaves the live entries and the free list (the same
\* entries in the same order) as they were.  (Spec has one Context, so both
\* calls are on it.)
second_gc_changes_nothing ==
    [][\A t \in limits.threads, c \in CtxKeys :
          (last.op = "gc" /\ last.res = "ok" /\ GC(t, c)) =>
              /\ last'.res = "ok"
              /\ LiveEntries(mem', c) = LiveEntries(mem, c)
              /\ mem'[c].free = mem[c].free]_vars

\* C8, for the second calls that return: the live entries and the free list
\* are as the first call left them.
second_gc_changes_nothing_on_return ==
    [][\A t \in limits.threads, c \in CtxKeys :
          (last.op = "gc" /\ last.res = "ok" /\ GC(t, c) /\ last'.res = "ok") =>
              /\ LiveEntries(mem', c) = LiveEntries(mem, c)
              /\ mem'[c].free = mem[c].free]_vars

(***************************************************************************)
(* C9                                                                      *)
(***************************************************************************)
\* Every used slot that holds no live entry has owner id 0 and is on the free
\* list, and the free list holds nothing else.
FreeListed(c) ==
    /\ \A a \in Slots(mem, c) \ LiveEntries(mem, c) : owner_id(Entry(mem, a)) = 0
    /\ Range(mem[c].free) = Slots(mem, c) \ LiveEntries(mem, c)

slots_are_stable ==
    /\ [](\A c \in CtxKeys :
            Live(c) =>
                \A k \in DOMAIN mem[c].nodes :
                    Len(mem[c].nodes[k].ents) <= mem[c].nodes[k].capacity)
    /\ [][\A c \in CtxKeys :
            (Live(c) /\ ctx_state'[c] = "live") =>
                /\ Len(mem'[c].nodes) >= Len(mem[c].nodes)
                /\ \A k \in DOMAIN mem[c].nodes :
                      /\ mem'[c].nodes[k].capacity = mem[c].nodes[k].capacity
                      /\ Len(mem'[c].nodes[k].ents) >= Len(mem[c].nodes[k].ents)
                      /\ (Len(mem'[c].nodes[k].ents) > Len(mem[c].nodes[k].ents)) =>
                            Len(mem[c].nodes[k].ents) < mem[c].nodes[k].capacity
                /\ \A a \in LiveEntries(mem, c) :
                      ~is_free(Entry(mem', a)) =>
                          /\ Entry(mem', a).inner = Entry(mem, a).inner
                          /\ owner_id(Entry(mem', a)) = owner_id(Entry(mem, a))]_vars

\* C10: an alloc has reused a freed slot of the first chunk while the second
\* chunk holds a live entry.
slot_reused_beside_live_entry ==
    \E c \in CtxKeys :
        /\ Live(c) /\ last.op = "alloc" /\ last.res = "ok"
        /\ Len(mem[c].nodes) = 2
        /\ last.node.entry[2] = 1
        /\ ~mem[c].markbit_marked
        /\ LiveEntries(mem, c) = Slots(mem, c)

(***************************************************************************)
(* C11                                                                     *)
(***************************************************************************)
\* The capacity the k-th chunk is to have, k from 0.
ChunkCapacity(k) ==
    IF 1024 * (2 ^ k) < 1024 * 1024 THEN 1024 * (2 ^ k) ELSE 1024 * 1024

\* C11: the k-th chunk of a Context (k from 0) has capacity
\* min(1024 * 2^k, 1024 * 1024); and on a fresh Context with an empty free
\* list the first 1024 allocations fill the first chunk in order and the
\* 1025th is the first entry of the second chunk, whose capacity is 2048.
chunk_capacities_double_to_the_cap ==
    /\ [](\A k \in DOMAIN mem[1].nodes :
            mem[1].nodes[k].capacity = ChunkCapacity(k - 1))
    /\ [][(ChunkAlloc /\ Len(mem[1].nodes) = 1) =>
            LET n == Len(mem[1].nodes[1].ents)
            IN  /\ (n < 1024) => last'.node = InnerRef(<<1, 1, n + 1>>)
                /\ (n = 1024) =>
                      /\ last'.node = InnerRef(<<1, 2, 1>>)
                      /\ mem'[1].nodes[2].capacity = 2048
                      /\ Len(mem'[1].nodes[1].ents) = 1024]_vars

\* C11: the 1025th allocation of a fresh Context has been made.
allocation_1025_made ==
    /\ last.op = "alloc"
    /\ Len(mem[1].nodes) = 2
    /\ Len(mem[1].nodes[1].ents) = 1024
    /\ Len(mem[1].nodes[2].ents) = 1

(***************************************************************************)
(* C12                                                                     *)
(***************************************************************************)
\* The lengths of the chunks of a Context, chunk by chunk.
ChunkLens(cx) == [k \in DOMAIN cx.nodes |-> Len(cx.nodes[k].ents)]

\* C12: with a non-empty free list alloc returns the slot pushed last on the
\* free list, the free list loses exactly that slot and no chunk changes
\* length; with an empty free list alloc appends one entry to the last chunk
\* and returns it, and a chunk is created first exactly when the last chunk's
\* length had reached its capacity.
alloc_chooses_its_slot ==
    [][\A g \in gcs : \A n \in Templates(g) :
          Alloc(g, n) =>
              LET cx == mem[g.ctx]
                  cy == mem'[g.ctx]
                  tail == cx.nodes[Len(cx.nodes)]
              IN  IF cx.free # <<>>
                  THEN /\ last'.node = InnerRef(cx.free[Len(cx.free)])
                       /\ cy.free = SubSeq(cx.free, 1, Len(cx.free) - 1)
                       /\ ChunkLens(cy) = ChunkLens(cx)
                       /\ ~is_free(Entry(mem', last'.node.entry))
                  ELSE /\ cy.free = <<>>
                       /\ Len(cy.nodes) =
                              Len(cx.nodes) +
                                  (IF Len(tail.ents) >= tail.capacity THEN 1 ELSE 0)
                       /\ \A k \in DOMAIN cx.nodes :
                              k < Len(cy.nodes) => Len(cy.nodes[k].ents) = Len(cx.nodes[k].ents)
                       /\ Len(cy.nodes[Len(cy.nodes)].ents) =
                              (IF Len(tail.ents) >= tail.capacity THEN 0 ELSE Len(tail.ents)) + 1
                       /\ last'.node =
                              InnerRef(<<g.ctx, Len(cy.nodes), Len(cy.nodes[Len(cy.nodes)].ents)>>)]_vars

\* C12: alloc has reused the later pushed of two free slots, and the earlier
\* pushed one is still on the free list.
alloc_reused_last_pushed ==
    \E c \in CtxKeys :
        /\ Live(c) /\ last.op = "alloc" /\ last.res = "ok"
        /\ Len(mem[c].free) = 1
        /\ last.node.entry[2] > mem[c].free[1][2]

(***************************************************************************)
(* C13                                                                     *)
(***************************************************************************)
WalkDone(mode) == walk.pc = "done" /\ walk.mode = mode

\* C13: the transforming walk returns Unchanged if and only if the visitor
\* answered Unchanged for every element; then no output list was created; and
\* on an empty list it returns Unchanged without a call of the visitor.
Unchanged_iff_every_element_Unchanged ==
    WalkDone("visit_child_mut") =>
        /\ Len(walk.answers) = Len(walk.list)
        /\ (walk.ret = "Unchanged") <=>
               (\A i \in DOMAIN walk.answers : walk.answers[i] = Unchanged)
        /\ (walk.ret = "Unchanged") => (~walk.created /\ walk.result = <<>>)
        /\ (walk.ret # "Unchanged") => (walk.ret = "Changed" /\ walk.created)
        /\ (walk.list = <<>>) => (walk.ret = "Unchanged" /\ walk.calls = <<>>)

\* C13: a transforming walk over a list of two elements or more has returned
\* Unchanged.
walk_returned_Unchanged ==
    /\ WalkDone("visit_child_mut")
    /\ walk.ret = "Unchanged"
    /\ Len(walk.list) >= 2

(***************************************************************************)
(* C14                                                                     *)
(***************************************************************************)
\* C14: when the transforming walk over a list of length n returns
\* Changed(list'), list' has length n and its element i is the visitor's
\* replacement where the visitor answered Changed and the original element i
\* where it answered Unchanged.
Changed_list_is_elementwise ==
    (WalkDone("visit_child_mut") /\ walk.ret = "Changed") =>
        /\ Len(walk.result) = Len(walk.list)
        /\ Len(walk.answers) = Len(walk.list)
        /\ \A i \in DOMAIN walk.list :
              walk.result[i] = IF walk.answers[i].changed THEN walk.answers[i].node
                               ELSE walk.list[i]

\* C14: a walk has returned Changed after the visitor answered Unchanged,
\* Changed, Unchanged for the first three elements.
walk_changed_in_the_middle ==
    /\ WalkDone("visit_child_mut") /\ walk.ret = "Changed"
    /\ Len(walk.list) >= 3
    /\ ~walk.answers[1].changed /\ walk.answers[2].changed /\ ~walk.answers[3].changed

(***************************************************************************)
(* C15                                                                     *)
(***************************************************************************)
\* C15: in both walks the visitor has been called, at any moment, once for
\* each element before the index, in increasing index order, each time with
\* the containing node as parent; and a walk returns only when the index has
\* reached the end of the list.
visitor_called_once_per_element_in_order ==
    /\ Len(walk.calls) = walk.index
    /\ walk.index <= Len(walk.list)
    /\ \A i \in DOMAIN walk.calls :
          walk.calls[i] = [node |-> walk.list[i], parent |-> Some(walk.parent)]
    /\ (walk.pc = "done") => walk.index = Len(walk.list)

\* C15: a transforming walk has returned after a change at the second of
\* three or more elements.
walk_done_after_switch ==
    /\ WalkDone("visit_child_mut")
    /\ Len(walk.list) >= 3
    /\ ~walk.answers[1].changed /\ walk.answers[2].changed
    /\ walk.list[1] # walk.list[2]

(***************************************************************************)
(* C16                                                                     *)
(***************************************************************************)
\* C16: a thread's in-use flag is true exactly while a GCContext exists on
\* that thread; after the drop of a GCContext, and after a gc that returns,
\* the flag of the thread is clear, so that GCContext::new on it succeeds; and
\* GCContext::new succeeds on every thread that has no GCContext.
flag_released_after_drop_and_gc ==
    /\ [](\A t \in Threads : GCCONTEXT_IN_USE[t] <=> (\E g \in gcs : g.thread = t))
    /\ [][/\ \A g \in gcs :
                GCContextDrop(g) =>
                    /\ ~GCCONTEXT_IN_USE'[g.thread]
                    /\ GCContext_new(GCCONTEXT_IN_USE'[g.thread]).res = "ok"
          /\ \A t \in limits.threads, c \in CtxKeys :
                (GC(t, c) /\ last'.res = "ok") =>
                    /\ ~GCCONTEXT_IN_USE'[t]
                    /\ GCContext_new(GCCONTEXT_IN_USE'[t]).res = "ok"
          /\ \A t \in limits.threads, c \in CtxKeys :
                (GCContextNew(t, c) /\ ~\E g \in gcs : g.thread = t) =>
                    /\ last'.res = "ok"
                    /\ \E g \in gcs' : g.thread = t /\ g.ctx = c]_vars

\* C16: a session has been opened over a Context on which a gc had returned.
session_opened_after_gc ==
    /\ last.op = "GCContext::new" /\ last.res = "ok"
    /\ \E g \in gcs : ~mem[g.ctx].markbit_marked

(***************************************************************************)
(* C17                                                                     *)
(***************************************************************************)
\* C17: any two Contexts, made by calls of Context::new on one thread or
\* racing on two, have different ids, which are also the ids of their
\* NodePtrCounters; the first id issued is 1, and an id issued later is
\* larger than every id issued earlier.
Context_ids_are_unique ==
    /\ \A c1, c2 \in CtxKeys :
          (Live(c1) /\ Live(c2) /\ c1 # c2) => mem[c1].id # mem[c2].id
    /\ \A c \in CtxKeys :
          Live(c) =>
              /\ mem[c].nodeptr_count.ctx_id = mem[c].id
              /\ mem[c].id \in Range(new_calls.issued)
              /\ \A t \in Threads :
                    new_calls.pending[t].fetched => new_calls.pending[t].id # mem[c].id
    /\ \A t1, t2 \in Threads :
          (t1 # t2 /\ new_calls.pending[t1].fetched /\ new_calls.pending[t2].fetched)
              => new_calls.pending[t1].id # new_calls.pending[t2].id
    /\ (new_calls.issued # <<>>) => new_calls.issued[1] = U32(1)
    /\ \A i, j \in DOMAIN new_calls.issued :
          i < j => U32Less(new_calls.issued[i], new_calls.issued[j])

\* C17: of two racing calls the one that took its id second has returned
\* first: the Context made first has id 2 and the other one id 1.
racing_calls_returned_out_of_order ==
    /\ Live(1) /\ Live(2)
    /\ mem[1].id = U32(2)
    /\ mem[2].id = U32(1)

(***************************************************************************)
(* C18                                                                     *)
(***************************************************************************)
\* C18: strict mode is off in a new Context, enable_strict_mode turns it on,
\* and no operation (alloc, gc, handle operations, enable_strict_mode again)
\* turns it off while the Context exists.
strict_mode_is_monotonic ==
    [][\A c \in CtxKeys :
          /\ (ctx_state[c] = "none" /\ ctx_state'[c] = "live") => ~strict_mode(mem'[c])
          /\ EnableStrictMode(c) => strict_mode(mem'[c])
          /\ (Live(c) /\ ctx_state'[c] = "live" /\ strict_mode(mem[c]))
                => strict_mode(mem'[c])
          /\ (Live(c) /\ ctx_state'[c] = "live" /\ ~strict_mode(mem[c])
                 /\ last'.op # "enable_strict_mode")
                => ~strict_mode(mem'[c])]_vars

\* C18: strict mode is still on when a gc that followed enable_strict_mode
\* has returned.
strict_mode_kept ==
    \E c \in CtxKeys :
        /\ Live(c) /\ strict_mode(mem[c])
        /\ last.op = "gc" /\ last.res = "ok"

(***************************************************************************)
(* C19                                                                     *)
(***************************************************************************)
\* The texts listed for each enum.
ListedTexts ==
    [UnaryExpressionOperator      |-> {"delete", "void", "typeof", "+", "-", "~", "!"},
     BinaryExpressionOperator     |-> {"==", "!=", "===", "!==", "<", "<=", ">", ">=",
                                       "<<", ">>", ">>>", "+", "-", "*", "/", "%",
                                       "|", "^", "&", "**", "in", "instanceof"},
     LogicalExpressionOperator    |-> {"&&", "||", "??"},
     UpdateExpressionOperator     |-> {"++", "--"},
     AssignmentExpressionOperator |-> {"=", "<<=", ">>=", ">>>=", "+=", "-=", "*=", "/=",
                                       "%=", "|=", "^=", "&=", "**=", "||=", "&&=", "??="},
     VariableDeclarationKind      |-> {"var", "let", "const"},
     PropertyKind                 |-> {"init", "get", "set"},
     MethodDefinitionKind         |-> {"method", "constructor", "get", "set"},
     ImportKind                   |-> {"value", "type", "typeof"},
     ExportKind                   |-> {"value", "type"}]

\* C19: in each of the ten enums no variant and no text appears twice and the
\* texts are the listed ones; the text of a variant converts back to that
\* variant; a string that is no text of the enum converts to
\* TryFromStringError and a text of the enum to a variant whose text it is;
\* "===" converts to BinaryExpressionOperator::StrictEquals and "foo" fails.
str_enums_are_bijections ==
    /\ DOMAIN StrEnums = DOMAIN ListedTexts
    /\ \A e \in DOMAIN StrEnums :
          LET table == StrEnums[e]
          IN  /\ \A i, j \in DOMAIN table :
                    i # j => (table[i][1] # table[j][1] /\ table[i][2] # table[j][2])
              /\ Texts(table) = ListedTexts[e]
    /\ conv.op = "as_str" =>
          \E i \in DOMAIN StrEnums[conv.enum] :
              StrEnums[conv.enum][i] = <<conv.variant, conv.str>>
    /\ conv.op = "try_from(as_str)" => conv.result = Ok(conv.variant)
    /\ conv.op = "try_from" =>
          LET table == StrEnums[conv.enum]
          IN  /\ conv.str \notin Texts(table) => conv.result = TryFromStringError
              /\ conv.str \in Texts(table) =>
                    \E i \in DOMAIN table : /\ table[i][2] = conv.str
                                            /\ conv.result = Ok(table[i][1])
              /\ (conv.enum = "BinaryExpressionOperator" /\ conv.str = "===")
                    => conv.result = Ok("StrictEquals")
              /\ conv.str = "foo" => conv.result = TryFromStringError

\* C19: the text of StrictEquals was converted back to a variant.
StrictEquals_round_trip ==
    /\ conv.op = "try_from(as_str)"
    /\ conv.enum = "BinaryExpressionOperator"
    /\ conv.variant = "StrictEquals"
    /\ conv.str = "==="

(***************************************************************************)
(* C20                                                                     *)
(***************************************************************************)
\* C20: when a call of gc starts, every entry of every chunk of the Context,
\* free or live, has a mark bit different from markbit_marked, and the call
\* does not end in the panic "Entry marked before start of GC".
no_entry_marked_at_gc_start ==
    [][\A t \in Threads, c \in CtxKeys :
          GC(t, c) =>
              /\ \A a \in Range(EntryAddrs(c, mem[c])) :
                    markbit(Entry(mem, a)) # mem[c].markbit_marked
              /\ last'.res # "panic: Entry marked before start of GC"]_vars

\* C20: when a call of gc starts, every entry that is not free has a mark bit
\* different from markbit_marked; the call ends in the panic "Entry marked
\* before start of GC" only in a build with debug assertions, when
\* markbit_marked is false and a chunk holds a freed entry.
no_live_entry_marked_at_gc_start ==
    [][\A t \in Threads, c \in CtxKeys :
          GC(t, c) =>
              /\ \A a \in Range(EntryAddrs(c, mem[c])) :
                    ~is_free(Entry(mem, a))
                        => markbit(Entry(mem, a)) # mem[c].markbit_marked
              /\ last'.res = "panic: Entry marked before start of GC"
                    <=> /\ debug_assertions
                        /\ ~mem[c].markbit_marked
                        /\ \E a \in Range(EntryAddrs(c, mem[c])) : is_free(Entry(mem, a))]_vars

\* C20: a call of gc has ended in the panic "Entry marked before start of GC"
\* although no entry of the Context is live.
gc_panicked_on_freed_entry ==
    /\ last.op = "gc"
    /\ last.res = "panic: Entry marked before start of GC"
    /\ \E c \in CtxKeys :
          /\ Live(c)
          /\ \A a \in Range(EntryAddrs(c, mem[c])) : is_free(Entry(mem, a))

(***************************************************************************)
(* C21                                                                     *)
(***************************************************************************)
\* No value occurs twice in the sequence s.
NoRepeats(s) == \A i, j \in DOMAIN s : i # j => s[i] # s[j]

RECURSIVE ChildCount(_, _, _)
\* The number of child references held by the entries at addrs[i..].
ChildCount(m, addrs, i) ==
    IF i > Len(addrs) THEN 0
    ELSE Len(Entry(m, addrs[i]).inner.children) + ChildCount(m, addrs, i + 1)

OtherSession(t, c) == \E g \in gcs : g.thread = t /\ g.ctx # c

\* C22: a call of gc on a Context, made on a thread where a GCContext over
\* another Context is alive, panics with the multiple-GCContexts message,
\* leaves every Context as it was and leaves the thread's flag set.
gc_under_other_session_panics_unchanged ==
    [][\A t \in Threads, c \in CtxKeys :
          (GC(t, c) /\ OtherSession(t, c)) =>
              /\ last'.res = "panic: Attempt to create multiple GCContexts in a single thread"
              /\ mem' = mem
              /\ GCCONTEXT_IN_USE'[t]]_vars

\* C22: such a call of gc panics, leaves every Context as it was and leaves
\* the thread's flag set; the panic is the multiple-GCContexts one unless the
\* build has debug assertions and an entry of the Context has its mark bit
\* equal to markbit_marked, and then it is "Entry marked before start of GC".
gc_under_other_session_panics_somehow ==
    [][\A t \in Threads, c \in CtxKeys :
          (GC(t, c) /\ OtherSession(t, c)) =>
              /\ last'.res =
                    IF debug_assertions /\ gc_entry_marked(mem, c)
                    THEN "panic: Entry marked before start of GC"
                    ELSE "panic: Attempt to create multiple GCContexts in a single thread"
              /\ mem' = mem
              /\ GCCONTEXT_IN_USE' = GCCONTEXT_IN_USE
              /\ GCCONTEXT_IN_USE[t]]_vars

\* C22: a call of gc has panicked with "Entry marked before start of GC"
\* while a GCContext was alive.
gc_panicked_on_entry_under_session ==
    /\ last.op = "gc"
    /\ last.res = "panic: Entry marked before start of GC"
    /\ gcs # {}

(***************************************************************************)
(* C23                                                                     *)
(***************************************************************************)
\* C23: a clone adds one to the count of the entry and one to the Context's
\* NodePtrCounter, changes nothing else and is == to the original; a drop
\* takes one from each, changes nothing else and does not panic; two NodePtrs
\* are == exactly when they point to the same entry; no count is negative.
NodePtr_counts_move_by_one ==
    /\ [](\A c \in CtxKeys :
             Live(c) =>
                 /\ mem[c].nodeptr_count.count >= 0
                 /\ \A a \in Range(EntryAddrs(c, mem[c])) : Entry(mem, a).count >= 0)
    /\ [](\A p, q \in BagToSet(ptrs) : NodePtr_eq(p, q) <=> p.entry = q.entry)
    /\ [][\A p \in BagToSet(ptrs) :
             LET c == p.counter
                 counted(m, d) ==
                     [SetEntry(m, p.entry, [Entry(m, p.entry) EXCEPT !.count = @ + d])
                        EXCEPT ![c].nodeptr_count.count = @ + d]
             IN  /\ NodePtrClone(p) =>
                       /\ mem' = counted(mem, 1)
                       /\ Entry(mem', p.entry).count = Entry(mem, p.entry).count + 1
                       /\ mem'[c].nodeptr_count.count = mem[c].nodeptr_count.count + 1
                       /\ NodePtr_eq(last'.ptr, p)
                       /\ ptrs' = ptrs (+) SetToBag({last'.ptr})
                 /\ NodePtrDrop(p) =>
                       /\ last'.res = "ok"
                       /\ mem' = counted(mem, -1)
                       /\ Entry(mem', p.entry).count = Entry(mem, p.entry).count - 1
                       /\ mem'[c].nodeptr_count.count = mem[c].nodeptr_count.count - 1]_vars

\* C23: one of two equal NodePtrs was dropped: the other is still there, and
\* the entry's count and the Context's NodePtrCounter are back at 1.
NodePtr_clone_dropped ==
    /\ last.op = "NodePtr::drop" /\ last.res = "ok"
    /\ BagIn(last.ptr, ptrs)
    /\ Entry(mem, last.ptr.entry).count = 1
    /\ mem[last.ptr.counter].nodeptr_count.count = 1

(***************************************************************************)
(* C24                                                                     *)
(***************************************************************************)
\* C24: whatever id the counter gave the Context, the entry alloc has just
\* stamped is not free, and its low 31 bits are the id of the Context, also
\* after its mark bit is set or cleared.
stamped_cell_keeps_the_id ==
    [][\A g \in gcs :
          \A n \in Templates(g) :
              (Alloc(g, n) /\ last'.res = "ok") =>
                  LET entry == Entry(mem', last'.node.entry)
                  IN  /\ ~is_free(entry)
                      /\ \A bit \in BOOLEAN :
                            U32(owner_id(set_markbit(entry, bit))) = mem[g.ctx].id]_vars

\* C24: the entry alloc has just stamped has the low 31 bits of the id of the
\* Context as its low 31 bits, also after its mark bit is set or cleared, and
\* the mark bit is the unmarked polarity; it is free exactly when those 31
\* bits are 0 and the unmarked polarity is 0.  For an id from 1 to 2^31 - 1
\* the low 31 bits are the id and the entry is not free.
stamped_cell_keeps_the_low_31_bits ==
    [][\A g \in gcs :
          \A n \in Templates(g) :
              (Alloc(g, n) /\ last'.res = "ok") =>
                  LET entry == Entry(mem', last'.node.entry)
                      id == mem[g.ctx].id
                  IN  /\ \A bit \in BOOLEAN :
                            /\ owner_id(set_markbit(entry, bit)) = id.lo
                            /\ markbit(set_markbit(entry, bit)) = bit
                      /\ markbit(entry) = ~mem[g.ctx].markbit_marked
                      /\ is_free(entry) <=> (id.lo = 0 /\ mem[g.ctx].markbit_marked)
                      /\ (id.hi = 0 /\ id.lo # 0) =>
                            /\ ~is_free(entry)
                            /\ U32(owner_id(entry)) = id]_vars

\* C24: alloc has returned an entry that is_free reports free.
alloc_returned_a_free_entry ==
    /\ last.op = "alloc" /\ last.res = "ok"
    /\ is_free(Entry(mem, last.node.entry))

(***************************************************************************)
(* C25                                                                     *)
(***************************************************************************)
\* The free list of Context c holds no slot twice, and every slot on it has
\* the cell FREE_ENTRY and a count of zero.
FreeListClean(c) ==
    /\ NoRepeats(mem[c].free)
    /\ \A a \in Range(mem[c].free) :
          Entry(mem, a).ctx_id_markbit = FREE_ENTRY /\ Entry(mem, a).count = 0

\* C25: the entry alloc returns, reused or appended, has the id of the
\* Context as owner id, a count of zero and the unmarked polarity; the free
\* list never holds a slot twice, nor a slot with a nonzero cell or a
\* positive count; alloc never panics.
alloc_returns_a_fresh_entry ==
    /\ [](\A c \in CtxKeys : Live(c) => FreeListClean(c))
    /\ [](last.op = "alloc" => last.res = "ok")
    /\ [][\A g \in gcs :
             \A n \in Templates(g) :
                 Alloc(g, n) =>
                     LET entry == Entry(mem', last'.node.entry)
                     IN  /\ U32(owner_id(entry)) = mem[g.ctx].id
                         /\ entry.count = 0
                         /\ markbit(entry) = ~mem[g.ctx].markbit_marked]_vars

\* C25: the same, the owner id of the entry being the low 31 bits of the id
\* of the Context, which are the id when the id is from 1 to 2^31 - 1.
alloc_returns_a_fresh_entry_of_low_31_bits ==
    /\ [](\A c \in CtxKeys : Live(c) => FreeListClean(c))
    /\ [](last.op = "alloc" => last.res = "ok")
    /\ [][\A g \in gcs :
             \A n \in Templates(g) :
                 Alloc(g, n) =>
                     LET entry == Entry(mem', last'.node.entry)
                         id == mem[g.ctx].id
                     IN  /\ owner_id(entry) = id.lo
                         /\ (id.hi = 0 /\ id.lo # 0) => U32(owner_id(entry)) = id
                         /\ entry.count = 0
                         /\ markbit(entry) = ~mem[g.ctx].markbit_marked]_vars

\* C25: alloc has returned an entry whose owner id is not the id of the
\* Context it was allocated in.
alloc_returned_another_owner_id ==
    /\ last.op = "alloc" /\ last.res = "ok"
    /\ \E c \in CtxKeys :
          /\ Live(c) /\ last.node.entry[1] = c
          /\ U32(owner_id(Entry(mem, last.node.entry))) # mem[c].id

(***************************************************************************)
(* C26                                                                     *)
(***************************************************************************)
\* C26: GCContext::new and gc on a thread end as they would if no other
\* thread had a GCContext: GCContext::new succeeds exactly when the thread
\* itself has none, gc on a thread that has none does not panic with the
\* multiple-GCContexts message, and neither they nor the drop of a GCContext
\* change the flag of another thread.
sessions_are_per_thread ==
    [][/\ \A t \in Threads, c \in CtxKeys :
             GCContextNew(t, c) =>
                 /\ last'.res = "ok" <=> ~\E g \in gcs : g.thread = t
                 /\ \A u \in Threads \ {t} : GCCONTEXT_IN_USE'[u] = GCCONTEXT_IN_USE[u]
       /\ \A t \in Threads, c \in CtxKeys :
             GC(t, c) =>
                 /\ (~\E g \in gcs : g.thread = t) =>
                       /\ last'.res = gc(mem, c, FALSE, debug_assertions).res
                       /\ last'.res #
                            "panic: Attempt to create multiple GCContexts in a single thread"
                 /\ \A u \in Threads \ {t} : GCCONTEXT_IN_USE'[u] = GCCONTEXT_IN_USE[u]
       /\ \A g \in gcs :
             GCContextDrop(g) =>
                 \A u \in Threads \ {g.thread} :
                     /\ GCCONTEXT_IN_USE'[u] = GCCONTEXT_IN_USE[u]
                     /\ (\E h \in gcs : h.thread = u) => GCCONTEXT_IN_USE'[u]]_vars

\* C26: a GCContext was made on one thread while a GCContext over another
\* Context is alive on the other thread.
sessions_on_two_threads ==
    /\ last.op = "GCContext::new" /\ last.res = "ok"
    /\ \E g, h \in gcs : g.thread # h.thread /\ g.ctx # h.ctx
    /\ \A t \in Threads : GCCONTEXT_IN_USE[t]

(***************************************************************************)
(* C27                                                                     *)
(***************************************************************************)
\* C27: in every state, every child reference held by an entry that is not
\* free points to an entry of the same Context that is not free, and every
\* NodePtr of a Context in existence points to an entry that is not free and
\* has a count of at least 1.
no_dangling_reference ==
    \A c \in CtxKeys :
        Live(c) =>
            /\ \A a \in LiveEntries(mem, c) :
                  \A child \in Range(Entry(mem, a).inner.children) :
                      child.entry \in LiveEntries(mem, c)
            /\ \A p \in BagToSet(ptrs) :
                  p.counter = c =>
                      /\ p.entry \in LiveEntries(mem, c)
                      /\ Entry(mem, p.entry).count >= 1

\* C27: in every state, every child reference held by an entry that is not on
\* the free list points to a used slot of the same Context that is not on the
\* free list, and every NodePtr of a Context in existence points to such a
\* slot, whose count is at least 1.
no_reference_to_a_free_listed_slot ==
    \A c \in CtxKeys :
        Live(c) =>
            LET used == Slots(mem, c) \ Range(mem[c].free)
            IN  /\ \A a \in used :
                      \A child \in Range(Entry(mem, a).inner.children) :
                          child.entry \in used
                /\ \A p \in BagToSet(ptrs) :
                      p.counter = c =>
                          /\ p.entry \in used
                          /\ Entry(mem, p.entry).count >= 1

\* C27: a NodePtr points to an entry that is_free reports free and that is
\* not on the free list.
NodePtr_to_entry_reported_free ==
    \E p \in BagToSet(ptrs) :
        /\ Live(p.counter)
        /\ is_free(Entry(mem, p.entry))
        /\ p.entry \notin Range(mem[p.counter].free)

(***************************************************************************)
(* C28                                                                     *)
(***************************************************************************)
\* The payloads of the used slots of Context c in memory m.
Payloads(m, c) == [a \in Slots(m, c) |-> Entry(m, a).inner]

\* The handle counts of the used slots of Context c in memory m.
Counts(m, c) == [a \in Slots(m, c) |-> Entry(m, a).count]

\* C28: a step that is no call of gc leaves the free list of every Context in
\* existence as it was or shorter, frees no entry and sets no owner id to 0;
\* the drop of a NodePtr leaves every entry live and every payload as it was,
\* also when it takes a count to 0.  A call of gc changes no handle count, no
\* NodePtrCounter and no payload of an entry that is live after it.
only_gc_reclaims ==
    [][\A c \in CtxKeys :
          (Live(c) /\ ctx_state'[c] = "live") =>
              /\ (~\E t \in Threads : GC(t, c)) =>
                    /\ Len(mem'[c].free) <= Len(mem[c].free)
                    /\ \A i \in DOMAIN mem'[c].free : mem'[c].free[i] = mem[c].free[i]
                    /\ LiveEntries(mem, c) \subseteq LiveEntries(mem', c)
                    /\ \A a \in Slots(mem', c) :
                          owner_id(Entry(mem', a)) = 0 =>
                              a \in Slots(mem, c) /\ owner_id(Entry(mem, a)) = 0
              /\ \A p \in BagToSet(ptrs) :
                    (NodePtrDrop(p) /\ p.counter = c) =>
                        /\ LiveEntries(mem', c) = LiveEntries(mem, c)
                        /\ Payloads(mem', c) = Payloads(mem, c)
                        /\ mem'[c].free = mem[c].free
              /\ \A t \in Threads :
                    GC(t, c) =>
                        /\ Counts(mem', c) = Counts(mem, c)
                        /\ mem'[c].nodeptr_count = mem[c].nodeptr_count
                        /\ \A a \in LiveEntries(mem', c) :
                              Entry(mem', a).inner = Entry(mem, a).inner]_vars

\* C28: a step that is no call of gc leaves the free list of every Context in
\* existence as it was or shorter and changes no cell that is not 0 to 0; the
\* drop of a NodePtr leaves every cell, every payload and the free list as
\* they were, also when it takes a count to 0.  A call of gc changes no handle
\* count, no NodePtrCounter and no payload of a slot that is not on the free
\* list after it.
only_gc_pushes_on_the_free_list ==
    [][\A c \in CtxKeys :
          (Live(c) /\ ctx_state'[c] = "live") =>
              /\ (~\E t \in Threads : GC(t, c)) =>
                    /\ Len(mem'[c].free) <= Len(mem[c].free)
                    /\ \A i \in DOMAIN mem'[c].free : mem'[c].free[i] = mem[c].free[i]
                    /\ \A a \in Slots(mem, c) :
                          is_free(Entry(mem', a)) => is_free(Entry(mem, a))
              /\ \A p \in BagToSet(ptrs) :
                    (NodePtrDrop(p) /\ p.counter = c) =>
                        /\ \A a \in Slots(mem, c) :
                              Entry(mem', a).ctx_id_markbit = Entry(mem, a).ctx_id_markbit
                        /\ Payloads(mem', c) = Payloads(mem, c)
                        /\ mem'[c].free = mem[c].free
              /\ \A t \in Threads :
                    GC(t, c) =>
                        /\ Counts(mem', c) = Counts(mem, c)
                        /\ mem'[c].nodeptr_count = mem[c].nodeptr_count
                        /\ \A a \in Slots(mem', c) \ Range(mem'[c].free) :
                              Entry(mem', a).inner = Entry(mem, a).inner]_vars

\* C28: the last NodePtr of an entry was dropped, and the entry, which is on
\* no free list, is reported free.
last_NodePtr_dropped_of_entry_reported_free ==
    /\ last.op = "NodePtr::drop" /\ last.res = "ok"
    /\ Live(last.ptr.counter)
    /\ Entry(mem, last.ptr.entry).count = 0
    /\ is_free(Entry(mem, last.ptr.entry))
    /\ last.ptr.entry \notin Range(mem[last.ptr.counter].free)

====
